---- MODULE Spec2Model ----
(***************************************************************************)
(* A model of streampager's concurrent ingestion engine:                   *)
(*   - the event bus            (src/src/event.rs),                        *)
(*   - the file loaders         (src/src/file.rs),                         *)
(*   - the controlled file      (src/src/controlled_file.rs).              *)
(* Each component has its own specification (SpecEvent, SpecFile,          *)
(* SpecCtl); the variables of the other components stay at their initial   *)
(* values.  Every access to shared state (an atomic, a lock-protected      *)
(* section, a channel operation) is one step, so that the interleavings    *)
(* the threads of the program can produce are the behaviours of the model. *)
(***************************************************************************)
EXTENDS Integers, Sequences, FiniteSets, TLC

(***************************************************************************)
(* Bounds of the model.                                                    *)
(***************************************************************************)
\* number of send / send_unique calls each sender thread makes
MaxSends == 2

\* The sender threads of the event bus.
Senders == {"s1", "s2"}

\* longest controlled file, longest batch of changes and number of
\* apply_changes calls of the controlled-file specification
MaxCtlLines == 2

MaxBatchLen == 2

MaxBatches == 2

\* longest stream or file, in bytes
MaxLen == 2

\* BUFFER_SIZE (1 MiB in the program), scaled to the streams of the model
BUFFER_SIZE == 1

\* DEFAULT_NEEDED_LINES (5000 in the program), scaled likewise
DEFAULT_NEEDED_LINES == 1

\* largest argument of set_needed_lines
MaxNeeded == 3

\* read errors (other than Interrupted) a source returns
MaxErrors == 1

\* the tail of the file kept as its fingerprint (4096 bytes in the
\* program), scaled likewise
TAIL_SIZE == 1

\* FileEvents sent to the loader thread, by the watcher thread and by
\* with_slice, and rewrites of the file on disk
MaxFileEvents == 1

MaxDiskWrites == 1

\* BufferCache::new(path, block_size, capacity): the size of a block and
\* the number of blocks the cache keeps (1 MiB and 16 in the program)
block_size == 2

capacity == 2

\* longest file behind the cache, with_slice calls made on it, and times
\* the file is appended to or truncated
MaxCacheLen == 3

MaxCacheCalls == 2

MaxCacheWrites == 1

\* Bounds of the refresh specification: the largest row of a descriptor, the
\* largest rotation step, and the calls made on a descriptor
MaxRow == 3

MaxStep == 2

MaxRefreshOps == 2

\* Bounds of the screen specification: the lines of the file, the rows of a
\* line, the rows of the file view, the rows of one scroll step, and the
\* scroll operations and renders made
MaxFileLines == 3

MaxLineHeight == 2

MaxViewHeight == 2

MaxScroll == 2

MaxScreenOps == 4

\* Bounds of the direct-mode specification: the lines of the output file
\* and of the error file, the rows of the terminal, the lines of the
\* progress block, and the calls of term.render that are counted
MaxDirectLines == 4

MaxErrorLines == 1

MaxRows == 2

MaxProgress == 1

MaxRenders == 2

\* longest value submitted to a prompt
MaxValueLen == 3

\* most lines of the file of a prompt
MaxCmdLines == 3

\* commands run on a screen
MaxCommands == 2

\* longest data of a line
MaxLineLen == 5

\* most rows of a file view
MaxPlanHeight == 3


\* most rows of a screen with an overlay
MaxOverlayHeight == 13

\* most lines of a progress
MaxProgressLines == 2


\* most rows of a screen that is rendered, most lines of its file, and the
\* events handled
MaxPaintHeight == 5

MaxPaintLines == 3

MaxPaintOps == 3

\* the bits of a usize of the model
UsizeBits == 16

\* The threads that call set_needed_lines: the display thread, from
\* direct::collect_unread and then from Screen::maybe_load_more.
Callers == {"c1"}

\* Option<T>::None
None == "None"

VARIABLES
    \* ---- event bus (event.rs)
    evQueue,      \* mpsc channel of envelopes, head first
    evFlag,       \* UniqueInstance flags (AtomicBool), by instance name
    evWakes,      \* Wake input events pending in the terminal
    sndPc,        \* position of each sender thread
    sndLeft,      \* calls each sender thread still makes
    sndLast,      \* outcome of each sender's last call
    getPc,        \* position of the display loop inside EventStream::get
    getHeld,      \* the envelope EventStream::receive is working on
    getRet,       \* what the last call of get returned
    getLog,       \* the events get returned that a sender thread sent, oldest first
    \* ---- controlled file (controlled_file.rs)
    ctlLines,     \* FileData.lines: the content of each line
    ctlLock,      \* the RwLock around FileData: "free", "write" or "poisoned"
    ctlPc,        \* position of the controller thread inside apply_changes
    ctlLeft,      \* changes of the current batch not yet applied
    ctlSub,       \* next subscriber of the notify list to send to
    ctlBatches,   \* apply_changes calls the controller still makes
    ctlResult,    \* what the last apply_changes call returned
    ctlLastOp,    \* the last change apply_change was given: its kind, whether it
                  \* was out of range, and the number of lines before it
    ctlCommitted, \* the lines when the write lock was last released
    ctlSeen,      \* what the last lines() / with_line() call of a reader returned,
                  \* and what the call returns on ctlCommitted
    \* ---- file (file.rs)
    fKind,        \* the variant of FileData
    fData,        \* the bytes of the source: the stream, the mapping, the static slice
    mLength,      \* FileMeta.length
    mNewlines,    \* FileMeta.newlines
    mFloor,       \* FileMeta.reload_old_line_count: <<>> is None, <<n>> is Some(n)
    mFinished,    \* FileMeta.finished
    mError,       \* FileMeta.error is Some
    mNeeded,      \* FileMeta.needed_lines
    mWakerMutex,  \* FileMeta.waker_mutex: "free" or held by the "loader"
    ld,           \* the loader thread: its position and its local variables
    written,      \* bytes committed to the buffers of a streamed file
    errLeft,      \* read errors the source still returns
    errRead,      \* a read was attempted after an error was stored
    rd,           \* the reader thread: its position and what it read so far
    sn,           \* the callers of set_needed_lines: position and argument
    rlWin,        \* the reload in progress, and what lines() returned before it
    fevLeft,      \* FileEvents still sent to the loader thread
    diskLeft,     \* times the file on disk is still rewritten
    fAppending,   \* the AtomicBool appending of new_file
    fEvents,      \* the channel of FileEvents to the loader thread
    \* ---- block cache (buffer_cache.rs)
    bcDisk,       \* the bytes of the file at the path of the cache
    bcOpen,       \* BufferCache.file is Some
    bcCache,      \* BufferCache.cache: the blocks and their buffers, least
                  \* recently used first
    bcOut,        \* the last with_slice call: its range, what failed during it,
                  \* and what it returned
    bcLeft,       \* with_slice calls still made
    bcWrites,     \* times the file of the cache is still appended to
    \* ---- refresh descriptor (refresh.rs)
    rf,           \* the Refresh value
    rfLog,        \* the calls made on it, oldest first, each with the value
                  \* it was made on
    rfLeft,       \* calls still made
    \* ---- scrolling of a screen (screen.rs)
    scHeights,    \* the height in rows of each line of the file, line 0 first
    scView,       \* file_view_height: the rows left to the file
    scPastEof,    \* config.scroll_past_eof
    scTop,        \* <<top_line, top_line_portion>>
    scFollow,     \* following_end
    scAbs,        \* pending_absolute_scroll: a line, or -1 for None
    scRel,        \* pending_relative_scroll
    scEnd,        \* the end anchor the last render computed
    scRendered,   \* a render has happened since the last scroll operation
    scLeft,       \* scroll operations and renders still made
    \* ---- direct mode and the start of the display (direct.rs, display.rs)
    drMode,       \* config.interface_mode
    drFiles,      \* the files of the pager: "out" is files[0], "err" its error
                  \* file, "more" a further output file
    drFile,       \* each file: complete lines, an incomplete last line, loaded,
                  \* and its Loaded event
    drRows,       \* the rows of the terminal
    drExpired,    \* the deadline of Delayed mode has passed
    drPc,         \* where direct() is: "init", "loop" or "done"
    drLastRead,   \* last_read, by file
    drLoaded,     \* loaded: the files a Loaded event was counted for
    drRemaining,  \* remaining
    drState,      \* the StreamingLines, as numbers of lines
    drTerm,       \* the terminal: output lines written, error lines drawn,
                  \* calls of term.render
    drOutcome,    \* what direct() returned, and on which line of its code
    dsPc,         \* where display::start is: "direct", "fullscreen", or how it
                  \* returned: "exited" after direct(), "quit" from the loop,
                  \* "error_early" before the exit guard, "error_loop" under it
    dsAlt,        \* the terminal is on its alternate screen
    dsRestored,   \* the exit guard has rendered its changes
    dsCursor,     \* the cursor shape of the terminal
    \* ---- the prompts of a screen (command.rs, screen.rs)
    cmLines,      \* screen.file.lines()
    cmError,      \* screen.error: "None", or the message
    cmSearch,     \* screen.search: "None" or "Some"
    cmAbs,        \* screen.pending_absolute_scroll: a line, or -1 for None
    cmLast,       \* the last command run: its name and the value submitted
    cmLeft,       \* commands still run
    \* ---- the parsing of a line (line.rs)
    lnData,       \* the bytes given to parse_spans
    lnSpans,      \* the spans it returned, each with the bytes it was made of
    lnPc,         \* "data" before the call, "parsed" after it
    \* ---- the scroll region of a render (screen.rs)
    plIn,         \* what the render has come to: the refresh pending, the heights
                  \* of the file view now and in the last frame, the scroll made
                  \* and the capabilities of the terminal
    plOut,        \* the changes pushed and the calls made on pending_refresh
    plPc,         \* "scrolled" before the planning, "planned" after it
    \* ---- the overlay of a render (screen.rs)
    ovIn,          \* what the render finds: the screen height and the parts of the stack
    ovOut,         \* overlay_height and row_contents after the placing
    ovPc,          \* "set_up" before the placing, "placed" after it
    \* ---- the rendering of a screen (screen.rs)
    ptScreen,      \* the Screen: its height, its file, its view position, its overlay parts and pending_refresh
    ptRendered,    \* Screen.rendered: the RenderState of the last render
    ptTerm,        \* the content of each row of the terminal, row 0 first
    ptLeft         \* events still handled

evVars == <<evQueue, evFlag, evWakes, sndPc, sndLeft, sndLast, getPc, getHeld, getRet, getLog>>

metaVars == <<mLength, mNewlines, mFloor, mFinished, mError, mNeeded, mWakerMutex>>

fileVars == <<fKind, fData, metaVars, ld, written, errLeft, errRead, rd, sn, rlWin,
              fevLeft, diskLeft, fAppending, fEvents>>

cacheVars == <<bcDisk, bcOpen, bcCache, bcOut, bcLeft, bcWrites>>

refreshVars == <<rf, rfLog, rfLeft>>

screenVars == <<scHeights, scView, scPastEof, scTop, scFollow, scAbs, scRel, scEnd,
                scRendered, scLeft>>

\* The variables of the components that the event bus, the controlled file
\* and the file loaders do not touch.
directVars == <<drMode, drFiles, drFile, drRows, drExpired, drPc, drLastRead, drLoaded,
                drRemaining, drState, drTerm, drOutcome, dsPc, dsAlt, dsRestored, dsCursor>>

commandVars == <<cmLines, cmError, cmSearch, cmAbs, cmLast, cmLeft>>

\* The variables of the components modelled after display::start.
lineVars == <<lnData, lnSpans, lnPc>>

planVars == <<plIn, plOut, plPc>>

overlayVars == <<ovIn, ovOut, ovPc>>

paintVars == <<ptScreen, ptRendered, ptTerm, ptLeft>>

moreVars == <<commandVars, lineVars, planVars, overlayVars, paintVars>>

restVars == <<cacheVars, refreshVars, screenVars, directVars, moreVars>>

(***************************************************************************)
(* event.rs                                                                *)
(***************************************************************************)
\* The UniqueInstance values of the program: the one the senders of the
\* event-bus specification share, and the three of a random-file loader.
Instances == {"render", "loaded", "appending", "reloading"}

\* An envelope; from is <<>>, or names the sender thread and the number of
\* the call that sent it.
Normal(event) == [unique |-> FALSE, event |-> event, inst |-> None, from |-> <<>>]

Unique(event, inst) == [unique |-> TRUE, event |-> event, inst |-> inst, from |-> <<>>]

\* The envelope as sent by the call number n of the sender thread s.
SentBy(envelope, s, n) == [envelope EXCEPT !.from = <<s, n>>]

\* The record of a returned event.
Returned(log, envelope) ==
    IF envelope.from = <<>> THEN log
    ELSE Append(log, [from |-> envelope.from[1], call |-> envelope.from[2],
                      event |-> envelope.event])

\* A faulty swap: it reports the expected value whatever the flag holds.
CompareAndSwapBlind(current, expected, new) ==
    [prev |-> expected, val |-> new]

\* AtomicBool::compare_and_swap: stores new iff the current value is the
\* expected one, and returns the previous value.
CompareAndSwap(current, expected, new) ==
    [prev |-> current, val |-> IF current = expected THEN new ELSE current]

\* The number of envelopes of a queue that carry the flag inst.
RECURSIVE CountUnique(_, _)
CountUnique(q, inst) ==
    IF q = <<>> THEN 0
    ELSE (IF Head(q).unique /\ Head(q).inst = inst THEN 1 ELSE 0)
         + CountUnique(Tail(q), inst)

evInit ==
    /\ evQueue = <<>>
    /\ evFlag = [i \in Instances |-> FALSE]
    /\ evWakes = 0
    /\ sndPc = [s \in Senders |-> "idle"]
    /\ sndLast = [s \in Senders |-> "none"]
    /\ getPc = "start"
    /\ getHeld = None
    /\ getRet = None
    /\ getLog = <<>>

\* EventSender::send, first half: self.0.send(Envelope::Normal(event)).
SendEnqueue(s) ==
    /\ sndPc[s] = "idle"
    /\ sndLeft[s] > 0
    /\ evQueue' = Append(evQueue, SentBy(Normal("Progress"), s, MaxSends - sndLeft[s] + 1))
    /\ sndPc' = [sndPc EXCEPT ![s] = "wake"]
    /\ sndLeft' = [sndLeft EXCEPT ![s] = @ - 1]
    /\ sndLast' = [sndLast EXCEPT ![s] = "sent"]
    /\ UNCHANGED <<evFlag, evWakes, getPc, getHeld, getRet, getLog>>

\* EventSender::send_unique, the compare_and_swap on the flag.  A call that
\* finds the flag set returns at once.
SendUniqueSwap(s) ==
    /\ sndPc[s] = "idle"
    /\ sndLeft[s] > 0
    /\ LET r == CompareAndSwap(evFlag["render"], FALSE, TRUE)
       IN /\ evFlag' = [evFlag EXCEPT !["render"] = r.val]
          /\ sndPc' = [sndPc EXCEPT ![s] = IF ~r.prev THEN "enqueue" ELSE "idle"]
          /\ sndLast' = [sndLast EXCEPT ![s] = IF ~r.prev THEN "sent" ELSE "elided"]
    /\ sndLeft' = [sndLeft EXCEPT ![s] = @ - 1]
    /\ UNCHANGED <<evQueue, evWakes, getPc, getHeld, getRet, getLog>>

\* EventSender::send_unique: self.0.send(Envelope::Unique(event, unique)).
SendUniqueEnqueue(s) ==
    /\ sndPc[s] = "enqueue"
    /\ evQueue' = Append(evQueue, SentBy(Unique("Render", "render"), s, MaxSends - sndLeft[s]))
    /\ sndPc' = [sndPc EXCEPT ![s] = "wake"]
    /\ UNCHANGED <<evFlag, evWakes, sndLeft, sndLast, getPc, getHeld, getRet, getLog>>

\* A faulty sender: it returns without the wake.
SendWakeSkipped(s) ==
    /\ sndPc[s] = "wake"
    /\ sndPc' = [sndPc EXCEPT ![s] = "idle"]
    /\ UNCHANGED <<evQueue, evFlag, evWakes, sndLeft, sndLast, getPc, getHeld, getRet, getLog>>

\* self.1.wake(): a Wake input event is queued in the terminal.
SendWake(s) ==
    /\ sndPc[s] = "wake"
    /\ evWakes' = evWakes + 1
    /\ sndPc' = [sndPc EXCEPT ![s] = "idle"]
    /\ UNCHANGED <<evQueue, evFlag, sndLeft, sndLast, getPc, getHeld, getRet, getLog>>

\* A faulty receiver: it takes the newest envelope of the queue.
TakeNewest ==
    /\ evQueue # <<>>
    /\ evQueue' = SubSeq(evQueue, 1, Len(evQueue) - 1)
    /\ IF evQueue[Len(evQueue)].unique
       THEN /\ getHeld' = evQueue[Len(evQueue)]
            /\ getPc' = "receive"
            /\ getRet' = getRet
            /\ getLog' = getLog
       ELSE /\ getHeld' = None
            /\ getPc' = "start"
            /\ getRet' = evQueue[Len(evQueue)].event
            /\ getLog' = Returned(getLog, evQueue[Len(evQueue)])

\* What get does with the envelope try_recv handed it: a Normal envelope is
\* returned at once, a Unique one goes through the flag reset of receive.
TakeEnvelope ==
    /\ evQueue # <<>>
    /\ evQueue' = Tail(evQueue)
    /\ IF Head(evQueue).unique
       THEN /\ getHeld' = Head(evQueue)
            /\ getPc' = "receive"
            /\ getRet' = getRet
            /\ getLog' = getLog
       ELSE /\ getHeld' = None
            /\ getPc' = "start"
            /\ getRet' = Head(evQueue).event
            /\ getLog' = Returned(getLog, Head(evQueue))

\* EventStream::get, the first try_recv.
GetTryRecv ==
    /\ getPc = "start"
    /\ IF evQueue # <<>>
       THEN TakeEnvelope
       ELSE /\ getPc' = "poll"
            /\ UNCHANGED <<evQueue, getHeld, getRet, getLog>>
    /\ UNCHANGED <<evFlag, evWakes, sndPc, sndLeft, sndLast>>

\* A faulty receive: it returns the event and leaves the flag set.
GetReceiveKeepsFlag ==
    /\ getPc = "receive"
    /\ getRet' = getHeld.event
    /\ getLog' = Returned(getLog, getHeld)
    /\ getHeld' = None
    /\ getPc' = "start"
    /\ UNCHANGED <<evQueue, evFlag, evWakes, sndPc, sndLeft, sndLast>>

\* EventStream::receive on a Unique envelope: the flag is stored false and
\* the event returned.
GetReceive ==
    /\ getPc = "receive"
    /\ evFlag' = [evFlag EXCEPT ![getHeld.inst] = FALSE]
    /\ getRet' = getHeld.event
    /\ getLog' = Returned(getLog, getHeld)
    /\ getHeld' = None
    /\ getPc' = "start"
    /\ UNCHANGED <<evQueue, evWakes, sndPc, sndLeft, sndLast>>

\* term.poll_input(wait) returns Some(InputEvent::Wake).
GetPollWake ==
    /\ getPc = "poll"
    /\ evWakes > 0
    /\ evWakes' = evWakes - 1
    /\ getPc' = "recheck"
    /\ UNCHANGED <<evQueue, evFlag, sndPc, sndLeft, sndLast, getHeld, getRet, getLog>>

\* term.poll_input(wait) returns another input event, or None at the
\* timeout: get returns it.
GetPollReturn ==
    /\ getPc = "poll"
    /\ \E r \in {"Input", "Timeout"} : getRet' = r
    /\ getPc' = "start"
    /\ UNCHANGED <<evQueue, evFlag, evWakes, sndPc, sndLeft, sndLast, getHeld, getLog>>

\* A faulty get: a wake that finds the queue empty makes it return None.
GetRecheckReturns ==
    /\ getPc = "recheck"
    /\ IF evQueue # <<>>
       THEN TakeEnvelope
       ELSE /\ getPc' = "start"
            /\ getRet' = "Timeout"
            /\ UNCHANGED <<evQueue, getHeld, getLog>>
    /\ UNCHANGED <<evFlag, evWakes, sndPc, sndLeft, sndLast>>

\* EventStream::get, the try_recv after a wake: an empty queue goes back to
\* polling.
GetRecheck ==
    /\ getPc = "recheck"
    /\ IF evQueue # <<>>
       THEN TakeEnvelope
       ELSE /\ getPc' = "poll"
            /\ UNCHANGED <<evQueue, getHeld, getRet, getLog>>
    /\ UNCHANGED <<evFlag, evWakes, sndPc, sndLeft, sndLast>>

\* The calls of get that find an envelope in the queue.
GetDrain ==
    \/ evQueue # <<>> /\ GetTryRecv
    \/ GetReceive

GetNext ==
    \/ GetTryRecv
    \/ GetReceive
    \/ GetPollWake
    \/ GetPollReturn
    \/ GetRecheck

(***************************************************************************)
(* controlled_file.rs                                                      *)
(***************************************************************************)
ctlVars == <<ctlLines, ctlLock, ctlPc, ctlLeft, ctlSub, ctlBatches, ctlResult,
             ctlLastOp, ctlCommitted, ctlSeen>>

vars == <<evVars, ctlVars, fileVars, restVars>>

\* The variables a component leaves alone.
exceptCache == <<evVars, ctlVars, fileVars, refreshVars, screenVars, directVars, moreVars>>

exceptRefresh == <<evVars, ctlVars, fileVars, cacheVars, screenVars, directVars, moreVars>>

exceptScreen == <<evVars, ctlVars, fileVars, cacheVars, refreshVars, directVars, moreVars>>

exceptDirect == <<evVars, ctlVars, fileVars, cacheVars, refreshVars, screenVars, moreVars>>

exceptCommand == <<evVars, ctlVars, fileVars, cacheVars, refreshVars, screenVars, directVars,
                   lineVars, planVars,
    overlayVars,
    paintVars>>

exceptLine == <<evVars, ctlVars, fileVars, cacheVars, refreshVars, screenVars, directVars,
                commandVars, planVars,
    overlayVars,
    paintVars>>

exceptPlan == <<evVars, ctlVars, fileVars, cacheVars, refreshVars, screenVars, directVars,
                commandVars, lineVars,
    overlayVars,
    paintVars>>

exceptOverlay == <<evVars, ctlVars, fileVars, cacheVars, refreshVars, screenVars, directVars,
    commandVars, lineVars, planVars,
    paintVars>>

exceptPaint == <<evVars, ctlVars, fileVars, cacheVars, refreshVars, screenVars, directVars,
    commandVars, lineVars, planVars, overlayVars>>

\* Event::Reloading(index)
Reloading(index) == "Reloading(" \o ToString(index) \o ")"

\* Controller.notify: the file index of each ControlledFile made from the
\* controller (ControlledFile::new pushes one entry per file).
CtlNotifyList == <<0, 1>>

Contents == {"x", "y"}

ContentLists == {<<>>, <<"x">>, <<"x", "y">>}

CtlIndexes == 0 .. MaxCtlLines + 1

\* enum Change, with indexes and ranges that reach past the end of the file.
Changes ==
    [op : {"AppendLine"}, content : Contents]
    \cup [op : {"InsertLine"}, before_index : CtlIndexes, content : Contents]
    \cup [op : {"ReplaceLine"}, index : CtlIndexes, content : Contents]
    \cup [op : {"DeleteLine"}, index : CtlIndexes]
    \cup [op : {"AppendLines"}, contents : ContentLists]
    \cup [op : {"InsertLines"}, before_index : CtlIndexes, contents : ContentLists]
    \cup [op : {"ReplaceLines"}, start : CtlIndexes, end : CtlIndexes, contents : ContentLists]
    \cup [op : {"DeleteLines"}, start : CtlIndexes, end : CtlIndexes]

\* lines[from .. to], the empty sequence when from > to
Slice(lines, from, to) ==
    IF from > to THEN <<>> ELSE SubSeq(lines, from, to)

\* Vec::splice(start..end, new): the elements start..end (0-based, end
\* exclusive) replaced by new.
Splice(lines, start, end, new) ==
    Slice(lines, 1, start) \o new \o Slice(lines, end + 1, Len(lines))

Applied(lines) == [outcome |-> "Ok", lines |-> lines, index |-> 0, length |-> 0]

Panicked(lines) == [outcome |-> "panic", lines |-> lines, index |-> 0, length |-> 0]

\* FileData::line_mut: Some(line) of lines.get_mut(index), or the error
\* LineOutOfRange {index, length}.
LineMut(lines, index) ==
    IF index < Len(lines)
    THEN [outcome |-> "Ok", lines |-> lines, index |-> index, length |-> Len(lines)]
    ELSE [outcome |-> "LineOutOfRange", lines |-> lines, index |-> index,
          length |-> Len(lines)]

\* FileData::apply_change.  Vec::insert panics when index > len, Vec::remove
\* when index >= len, Vec::splice when start > end or end > len; only
\* ReplaceLine goes through line_mut.
ApplyChange(lines, c) ==
    CASE c.op = "AppendLine" -> Applied(Append(lines, c.content))
      [] c.op = "InsertLine" ->
            IF c.before_index > Len(lines) THEN Panicked(lines)
            ELSE Applied(Splice(lines, c.before_index, c.before_index, <<c.content>>))
      [] c.op = "ReplaceLine" ->
            IF LineMut(lines, c.index).outcome = "Ok"
            THEN Applied([lines EXCEPT ![c.index + 1] = c.content])
            ELSE LineMut(lines, c.index)
      [] c.op = "DeleteLine" ->
            IF c.index >= Len(lines) THEN Panicked(lines)
            ELSE Applied(Splice(lines, c.index, c.index + 1, <<>>))
      [] c.op = "AppendLines" -> Applied(lines \o c.contents)
      [] c.op = "InsertLines" ->
            IF c.before_index > Len(lines) THEN Panicked(lines)
            ELSE Applied(Splice(lines, c.before_index, c.before_index, c.contents))
      [] c.op = "ReplaceLines" ->
            IF c.start > c.end \/ c.end > Len(lines) THEN Panicked(lines)
            ELSE Applied(Splice(lines, c.start, c.end, c.contents))
      [] c.op = "DeleteLines" ->
            IF c.start > c.end \/ c.end > Len(lines) THEN Panicked(lines)
            ELSE Applied(Splice(lines, c.start, c.end, <<>>))

\* Whether change c names a line or a range that a file of len lines does
\* not have.
OutOfRange(c, len) ==
    CASE c.op \in {"InsertLine", "InsertLines"} -> c.before_index > len
      [] c.op \in {"ReplaceLine", "DeleteLine"} -> c.index >= len
      [] c.op \in {"ReplaceLines", "DeleteLines"} -> c.start > c.end \/ c.end > len
      [] OTHER -> FALSE

\* Result<()> of apply_changes: Ok, Err(LineOutOfRange {index, length}), a
\* panic of the calling thread, or None while no call has returned.
CtlResult(kind, index, length) == [kind |-> kind, index |-> index, length |-> length]

ctlInit ==
    /\ ctlLines = <<>>
    /\ ctlLock = "free"
    /\ ctlPc = "idle"
    /\ ctlLeft = 0
    /\ ctlSub = 1
    /\ ctlResult = CtlResult("None", 0, 0)
    /\ ctlLastOp = <<>>
    /\ ctlCommitted = <<>>
    /\ ctlSeen = [call |-> "none", index |-> 0, value |-> 0, committed |-> 0]

\* A read lock that does not wait for the writer.
ReadLockIgnoresWriter(lock) == lock # "poisoned"

\* RwLock::read succeeds when no writer holds the lock.
ReadLockFree(lock) == lock = "free"

\* Controller::apply_changes: self.data.write().unwrap().  The changes are
\* an iterator: the controller decides each one when the loop asks for it.
CtlBegin ==
    /\ ctlPc = "idle"
    /\ ctlBatches > 0
    /\ ctlBatches' = ctlBatches - 1
    /\ ctlLastOp' = <<>>
    /\ IF ctlLock = "poisoned"
       THEN /\ ctlResult' = CtlResult("panic", 0, 0)
            /\ UNCHANGED <<ctlLock, ctlPc, ctlLeft>>
       ELSE /\ ctlLock = "free"
            /\ ctlLock' = "write"
            /\ ctlPc' = "apply"
            /\ ctlResult' = CtlResult("None", 0, 0)
            /\ \E n \in 0 .. MaxBatchLen : ctlLeft' = n
    /\ UNCHANGED <<ctlLines, ctlSub, ctlCommitted, ctlSeen, evVars, fileVars, restVars>>

\* One turn of the loop: data.apply_change(change)?.  An error returns it
\* from apply_changes and drops the write guard; a panic drops the guard
\* while unwinding, which poisons the lock.
CtlApplyChange ==
    /\ ctlPc = "apply"
    /\ ctlLeft > 0
    /\ \E c \in Changes :
        LET r == ApplyChange(ctlLines, c)
        IN /\ Len(r.lines) <= MaxCtlLines
           /\ ctlLastOp' = <<[op |-> c.op, outOfRange |-> OutOfRange(c, Len(ctlLines)),
                              length |-> Len(ctlLines)]>>
           /\ ctlLines' = r.lines
           /\ IF r.outcome = "Ok"
              THEN /\ ctlLeft' = ctlLeft - 1
                   /\ UNCHANGED <<ctlLock, ctlPc, ctlResult, ctlCommitted>>
              ELSE /\ ctlLeft' = 0
                   /\ ctlPc' = "idle"
                   /\ ctlLock' = IF r.outcome = "panic" THEN "poisoned" ELSE "free"
                   /\ ctlResult' = CtlResult(r.outcome, r.index, r.length)
                   /\ ctlCommitted' = r.lines
    /\ UNCHANGED <<ctlSub, ctlBatches, ctlSeen, evVars, fileVars, restVars>>

\* The loop is over: self.notify.lock().unwrap().
CtlLockNotify ==
    /\ ctlPc = "apply"
    /\ ctlLeft = 0
    /\ ctlPc' = "notify"
    /\ ctlSub' = 1
    /\ UNCHANGED <<ctlLines, ctlLock, ctlLeft, ctlBatches, ctlResult, ctlLastOp,
                   ctlCommitted, ctlSeen, evVars, fileVars, restVars>>

\* event_sender.send(Event::Reloading(*index))? for the next subscriber.
CtlNotify ==
    /\ ctlPc = "notify"
    /\ ctlSub <= Len(CtlNotifyList)
    /\ evQueue' = Append(evQueue, Normal(Reloading(CtlNotifyList[ctlSub])))
    /\ evWakes' = evWakes + 1
    /\ ctlSub' = ctlSub + 1
    /\ UNCHANGED <<ctlLines, ctlLock, ctlPc, ctlLeft, ctlBatches, ctlResult, ctlLastOp,
                   ctlCommitted, ctlSeen>>
    /\ UNCHANGED <<evFlag, sndPc, sndLeft, sndLast, getPc, getHeld, getRet, getLog, fileVars, restVars>>

\* Ok(()): the notify guard and the write guard are dropped.
CtlReturn ==
    /\ ctlPc = "notify"
    /\ ctlSub > Len(CtlNotifyList)
    /\ ctlPc' = "idle"
    /\ ctlLock' = "free"
    /\ ctlResult' = CtlResult("Ok", 0, 0)
    /\ ctlCommitted' = ctlLines
    /\ UNCHANGED <<ctlLines, ctlLeft, ctlSub, ctlBatches, ctlLastOp, ctlSeen, evVars, fileVars, restVars>>

\* ControlledFile::lines: self.data.read().unwrap().lines.len().  On a
\* poisoned lock the unwrap panics.
CtlReadLines ==
    /\ IF ctlLock = "poisoned"
       THEN ctlSeen' = [call |-> "lines", index |-> 0, value |-> -1, committed |-> -1]
       ELSE /\ ReadLockFree(ctlLock)
            /\ ctlSeen' = [call |-> "lines", index |-> 0, value |-> Len(ctlLines),
                           committed |-> Len(ctlCommitted)]
    /\ UNCHANGED <<ctlLines, ctlLock, ctlPc, ctlLeft, ctlSub, ctlBatches, ctlResult,
                   ctlLastOp, ctlCommitted, evVars, fileVars, restVars>>

\* What with_line hands back for line index of lines: the content given to
\* call, or None.
LineOf(lines, index) ==
    IF index < Len(lines) THEN lines[index + 1] ELSE None

\* ControlledFile::with_line.
CtlWithLine(index) ==
    /\ IF ctlLock = "poisoned"
       THEN ctlSeen' = [call |-> "with_line", index |-> index, value |-> "panic",
                       committed |-> "panic"]
       ELSE /\ ReadLockFree(ctlLock)
            /\ ctlSeen' = [call |-> "with_line", index |-> index,
                           value |-> LineOf(ctlLines, index),
                           committed |-> LineOf(ctlCommitted, index)]
    /\ UNCHANGED <<ctlLines, ctlLock, ctlPc, ctlLeft, ctlSub, ctlBatches, ctlResult,
                   ctlLastOp, ctlCommitted, evVars, fileVars, restVars>>

(***************************************************************************)
(* file.rs: metadata, line counting and line lookup                        *)
(***************************************************************************)
\* The newline byte, and a byte that is not a newline.
NL == "\n"

Bytes == {"a", NL}

\* All byte sequences of at most n bytes.
RECURSIVE BytesUpTo(_)
BytesUpTo(n) ==
    IF n = 0 THEN {<<>>}
    ELSE BytesUpTo(n - 1) \cup {Append(b, c) : b \in {x \in BytesUpTo(n - 1) : Len(x) = n - 1}, c \in Bytes}

Min(a, b) == IF a < b THEN a ELSE b

Max(a, b) == IF a > b THEN a ELSE b

\* Event::Loaded(index)
Loaded(index) == "Loaded(" \o ToString(index) \o ")"

\* meta.index of the one file of the specification
FileIndex == 0

\* The scan of a batch: for the len bytes of data that follow position from
\* (0-based), base + i for every i with a newline at byte i of the batch, in
\* increasing order.
RECURSIVE NewlineOffsets(_, _, _, _)
NewlineOffsets(data, from, base, len) ==
    IF len = 0 THEN <<>>
    ELSE NewlineOffsets(data, from, base, len - 1)
         \o (IF data[from + len] = NL THEN <<base + len - 1>> ELSE <<>>)

\* fn line_count(newlines, length)
LineCount(newlines, length) ==
    LET lines == Len(newlines)
        after_last_newline_offset == IF lines = 0 THEN 0 ELSE newlines[lines] + 1
    IN IF length > after_last_newline_offset THEN lines + 1 ELSE lines

\* Option::unwrap_or(0) of reload_old_line_count; None is <<>>, Some(n) is <<n>>.
UnwrapOr0(opt) == IF opt = <<>> THEN 0 ELSE opt[1]

\* File::lines from the values it read: finished, then the floor (only when
\* not finished), then newlines and length.
LinesFrom(fin, floor, newlines, length) ==
    Max(IF ~fin THEN UnwrapOr0(floor) ELSE 0, LineCount(newlines, length))

\* File::lines evaluated on the current state.
LinesNow == LinesFrom(mFinished, mFloor, mNewlines, mLength)

\* A with_line that has no line after the last newline.
WithLineNoPartial(index, newlines, length) ==
    IF index >= Len(newlines)
    THEN [some |-> FALSE, start |-> 0, end |-> 0]
    ELSE LET start == IF index = 0 THEN 0 ELSE newlines[index] + 1
             end == newlines[index + 1] + 1
         IN [some |-> start # end, start |-> start, end |-> end]

\* File::with_line up to the call of with_slice: whether call is invoked,
\* and the byte range it is given.
WithLine(index, newlines, length) ==
    IF index > Len(newlines)
    THEN [some |-> FALSE, start |-> 0, end |-> 0]
    ELSE LET start == IF index = 0 THEN 0 ELSE newlines[index] + 1
             end == IF index < Len(newlines) THEN newlines[index + 1] + 1 ELSE length
         IN [some |-> start # end, start |-> start, end |-> end]

\* File::paused from the values it read.
PausedFrom(fin, mutex) == ~fin /\ mutex = "free"

\* FileMeta::new, and the threads before their first step.
fileIdle ==
    /\ mLength = 0
    /\ mNewlines = <<>>
    /\ mFloor = <<>>
    /\ mFinished = FALSE
    /\ mError = FALSE
    /\ mNeeded = DEFAULT_NEEDED_LINES
    /\ mWakerMutex = "free"
    /\ ld = [pc |-> "spawned", offset |-> 0, bufTotal |-> 0, len |-> 0, lineCount |-> 0,
             block |-> 0, fileOpen |-> (fKind = "file"), fpos |-> 0, endData |-> <<>>,
             sendEvent |-> FALSE, reload |-> FALSE]
    /\ written = 0
    /\ errRead = FALSE
    /\ rd = [pc |-> "idle", fin |-> FALSE, floor |-> <<>>, win |-> FALSE]
    /\ sn = [c \in Callers |-> [pc |-> "idle", arg |-> 0]]
    /\ rlWin = [open |-> FALSE, base |-> 0]
    /\ fAppending = FALSE
    /\ fEvents = <<>>

\* No file: the state of the file variables in the specifications of the
\* other components.
fileNone ==
    /\ fKind = "none"
    /\ fileIdle
    /\ fData = <<>>
    /\ errLeft = 0
    /\ fevLeft = 0
    /\ diskLeft = 0

(***************************************************************************)
(* file.rs: FileData::new_streamed, the reader thread                      *)
(***************************************************************************)
ldUnch == UNCHANGED <<fKind, fData, rd, sn, rlWin, fevLeft, diskLeft, fAppending, fEvents,
                      evVars, ctlVars, restVars>>

\* The bytes of the stream that are not read yet.
Remaining == Len(fData) - ld.offset

\* The room in the tail buffer, after a new buffer was pushed when the
\* buffers were full.
Room == IF ld.offset = ld.bufTotal THEN BUFFER_SIZE ELSE ld.bufTotal - ld.offset

BufTotalAfterAlloc == IF ld.offset = ld.bufTotal THEN ld.bufTotal + BUFFER_SIZE ELSE ld.bufTotal

\* let mut waker_mutex = meta.waker_mutex.lock().unwrap();
StLock ==
    /\ fKind = "streamed"
    /\ ld.pc = "spawned"
    /\ mWakerMutex = "free"
    /\ mWakerMutex' = "loader"
    /\ ld' = [ld EXCEPT !.pc = "loop"]
    /\ UNCHANGED <<mLength, mNewlines, mFloor, mFinished, mError, mNeeded, written,
                   errLeft, errRead>>
    /\ ldUnch

\* input.read(&mut write) returns Ok(len), len > 0.
StReadData ==
    /\ fKind = "streamed"
    /\ ld.pc = "loop"
    /\ Remaining > 0
    /\ \E len \in 1 .. Min(Remaining, Room) :
        ld' = [ld EXCEPT !.pc = "parse", !.len = len, !.bufTotal = BufTotalAfterAlloc]
    /\ errRead' = (errRead \/ mError)
    /\ UNCHANGED <<metaVars, written, errLeft>>
    /\ ldUnch

\* input.read(&mut write) returns Ok(0).
StReadEof ==
    /\ fKind = "streamed"
    /\ ld.pc = "loop"
    /\ Remaining = 0
    /\ ld' = [ld EXCEPT !.pc = "eof", !.bufTotal = BufTotalAfterAlloc]
    /\ errRead' = (errRead \/ mError)
    /\ UNCHANGED <<metaVars, written, errLeft>>
    /\ ldUnch

\* input.read(&mut write) returns Err of kind Interrupted: nothing is done
\* and the loop reads again.
StReadInterrupted ==
    /\ fKind = "streamed"
    /\ ld.pc = "loop"
    /\ ld' = [ld EXCEPT !.bufTotal = BufTotalAfterAlloc]
    /\ errRead' = (errRead \/ mError)
    /\ UNCHANGED <<metaVars, written, errLeft>>
    /\ ldUnch

\* input.read(&mut write) returns another Err: it is stored in meta.error,
\* the match arm ends and the loop goes round again.
StReadError ==
    /\ fKind = "streamed"
    /\ ld.pc = "loop"
    /\ errLeft > 0
    /\ errLeft' = errLeft - 1
    /\ mError' = TRUE
    /\ ld' = [ld EXCEPT !.bufTotal = BufTotalAfterAlloc]
    /\ errRead' = (errRead \/ mError)
    /\ UNCHANGED <<mLength, mNewlines, mFloor, mFinished, mNeeded, mWakerMutex, written>>
    /\ ldUnch

\* The newlines of the batch are pushed under the write lock of
\* meta.newlines; line_count is newlines.len().
StParse ==
    /\ fKind = "streamed"
    /\ ld.pc = "parse"
    /\ mNewlines' = mNewlines \o NewlineOffsets(fData, ld.offset, ld.offset, ld.len)
    /\ ld' = [ld EXCEPT !.pc = "written", !.lineCount = Len(mNewlines')]
    /\ UNCHANGED <<mLength, mFloor, mFinished, mError, mNeeded, mWakerMutex, written,
                   errLeft, errRead>>
    /\ ldUnch

\* offset += len; write.written(len);
StWritten ==
    /\ fKind = "streamed"
    /\ ld.pc = "written"
    /\ written' = written + ld.len
    /\ ld' = [ld EXCEPT !.pc = "addlen", !.offset = @ + ld.len]
    /\ UNCHANGED <<metaVars, errLeft, errRead>>
    /\ ldUnch

\* meta.length.fetch_add(len, Ordering::SeqCst);
StAddLength ==
    /\ fKind = "streamed"
    /\ ld.pc = "addlen"
    /\ mLength' = mLength + ld.len
    /\ ld' = [ld EXCEPT !.pc = "check"]
    /\ UNCHANGED <<mNewlines, mFloor, mFinished, mError, mNeeded, mWakerMutex, written,
                   errLeft, errRead>>
    /\ ldUnch

\* while line_count >= meta.needed_lines.load(..): the test.
StCheck ==
    /\ fKind = "streamed"
    /\ ld.pc = "check"
    /\ ld' = [ld EXCEPT !.pc = IF ld.lineCount >= mNeeded THEN "prewait" ELSE "loop"]
    /\ UNCHANGED <<metaVars, written, errLeft, errRead>>
    /\ ldUnch

\* meta.waker.wait(waker_mutex): the mutex is released and the thread
\* blocks on the condition variable.
StWait ==
    /\ fKind = "streamed"
    /\ ld.pc = "prewait"
    /\ mWakerMutex' = "free"
    /\ ld' = [ld EXCEPT !.pc = "waiting"]
    /\ UNCHANGED <<mLength, mNewlines, mFloor, mFinished, mError, mNeeded, written,
                   errLeft, errRead>>
    /\ ldUnch

\* Condvar::wait may wake without a notification.
StSpuriousWake ==
    /\ fKind = "streamed"
    /\ ld.pc = "waiting"
    /\ ld' = [ld EXCEPT !.pc = "woken"]
    /\ UNCHANGED <<metaVars, written, errLeft, errRead>>
    /\ ldUnch

\* Condvar::wait returns: the mutex is taken again and the loop tests again.
StReacquire ==
    /\ fKind = "streamed"
    /\ ld.pc = "woken"
    /\ mWakerMutex = "free"
    /\ mWakerMutex' = "loader"
    /\ ld' = [ld EXCEPT !.pc = "check"]
    /\ UNCHANGED <<mLength, mNewlines, mFloor, mFinished, mError, mNeeded, written,
                   errLeft, errRead>>
    /\ ldUnch

\* A reader thread that goes on to send Loaded without the store.
StFinishSkipped ==
    /\ fKind = "streamed"
    /\ ld.pc = "eof"
    /\ ld' = [ld EXCEPT !.pc = "send"]
    /\ UNCHANGED <<metaVars, written, errLeft, errRead>>
    /\ UNCHANGED <<fKind, fData, rd, sn, rlWin, fevLeft, diskLeft, fAppending, fEvents,
                   evVars, ctlVars, restVars>>

\* Ok(0): meta.finished.store(true, ..).
StFinish ==
    /\ fKind = "streamed"
    /\ ld.pc = "eof"
    /\ mFinished' = TRUE
    /\ ld' = [ld EXCEPT !.pc = "send"]
    /\ UNCHANGED <<mLength, mNewlines, mFloor, mError, mNeeded, mWakerMutex, written,
                   errLeft, errRead>>
    /\ UNCHANGED <<fKind, fData, rd, sn, rlWin, fevLeft, diskLeft, fAppending, fEvents,
                      evVars, ctlVars, restVars>>

\* event_sender.send(Event::Loaded(meta.index))?; return Ok(()): the thread
\* ends and its mutex guard is dropped.
StSendLoaded ==
    /\ fKind = "streamed"
    /\ ld.pc = "send"
    /\ evQueue' = Append(evQueue, Normal(Loaded(FileIndex)))
    /\ evWakes' = evWakes + 1
    /\ mWakerMutex' = "free"
    /\ ld' = [ld EXCEPT !.pc = "done"]
    /\ UNCHANGED <<mLength, mNewlines, mFloor, mFinished, mError, mNeeded, written,
                   errLeft, errRead>>
    /\ UNCHANGED <<evFlag, sndPc, sndLeft, sndLast, getPc, getHeld, getRet, getLog>>
    /\ UNCHANGED <<fKind, fData, rd, sn, rlWin, fevLeft, diskLeft, fAppending, fEvents,
                   ctlVars, restVars>>

StreamedNext ==
    \/ StLock
    \/ StReadData
    \/ StReadEof
    \/ StReadInterrupted
    \/ StReadError
    \/ StParse
    \/ StWritten
    \/ StAddLength
    \/ StCheck
    \/ StWait
    \/ StSpuriousWake
    \/ StReacquire
    \/ StFinish
    \/ StSendLoaded

(***************************************************************************)
(* file.rs: FileData::new_mapped and FileData::new_static, the parser      *)
(***************************************************************************)
Blocks == (Len(fData) + BUFFER_SIZE - 1) \div BUFFER_SIZE

\* One turn of the loop over the blocks: the newlines of the block are
\* pushed under the write lock of meta.newlines.
MpParseBlock ==
    /\ fKind \in {"mapped", "static"}
    /\ ld.pc = "spawned"
    /\ ld.block < Blocks
    /\ LET from == ld.block * BUFFER_SIZE
           to == Min((ld.block + 1) * BUFFER_SIZE, Len(fData))
       IN mNewlines' = mNewlines \o NewlineOffsets(fData, from, from, to - from)
    /\ ld' = [ld EXCEPT !.block = @ + 1]
    /\ UNCHANGED <<mLength, mFloor, mFinished, mError, mNeeded, mWakerMutex, written,
                   errLeft, errRead>>
    /\ ldUnch

\* meta.length.store(len, ..) after the last block.
MpStoreLength ==
    /\ fKind \in {"mapped", "static"}
    /\ ld.pc = "spawned"
    /\ ld.block = Blocks
    /\ mLength' = Len(fData)
    /\ ld' = [ld EXCEPT !.pc = "eof"]
    /\ UNCHANGED <<mNewlines, mFloor, mFinished, mError, mNeeded, mWakerMutex, written,
                   errLeft, errRead>>
    /\ ldUnch

\* meta.finished.store(true, ..).
MpFinish ==
    /\ fKind \in {"mapped", "static"}
    /\ ld.pc = "eof"
    /\ mFinished' = TRUE
    /\ ld' = [ld EXCEPT !.pc = "send"]
    /\ UNCHANGED <<mLength, mNewlines, mFloor, mError, mNeeded, mWakerMutex, written,
                   errLeft, errRead>>
    /\ ldUnch

\* event_sender.send(Event::Loaded(meta.index)).unwrap(); the thread ends.
MpSendLoaded ==
    /\ fKind \in {"mapped", "static"}
    /\ ld.pc = "send"
    /\ evQueue' = Append(evQueue, Normal(Loaded(FileIndex)))
    /\ evWakes' = evWakes + 1
    /\ ld' = [ld EXCEPT !.pc = "done"]
    /\ UNCHANGED <<metaVars, written, errLeft, errRead>>
    /\ UNCHANGED <<evFlag, sndPc, sndLeft, sndLast, getPc, getHeld, getRet, getLog>>
    /\ UNCHANGED <<fKind, fData, rd, sn, rlWin, fevLeft, diskLeft, fAppending, fEvents,
                   ctlVars, restVars>>

MappedNext ==
    \/ MpParseBlock
    \/ MpStoreLength
    \/ MpFinish
    \/ MpSendLoaded

(***************************************************************************)
(* file.rs: FileData::new_file, the watcher thread and the loader thread   *)
(***************************************************************************)
flUnch == UNCHANGED <<fKind, rd, sn, written, ctlVars, restVars>>

evFlUnch == UNCHANGED <<sndPc, sndLeft, sndLast, getPc, getHeld, getRet, getLog>>

\* The events the watcher thread sends for the notifications of the file
\* system, and the value it stores into appending first (<<>>: none).
WatchEvents ==
    { [notice |-> "NoticeWrite", appending |-> <<TRUE>>, event |-> "Append"],
      [notice |-> "Write", appending |-> <<FALSE>>, event |-> "Append"],
      [notice |-> "Create", appending |-> <<>>, event |-> "Append"],
      [notice |-> "Rename", appending |-> <<>>, event |-> "Reload"],
      [notice |-> "NoticeRemove", appending |-> <<>>, event |-> "Reload"] }

\* The watcher thread handles one notification.
Watch(w) ==
    /\ fKind = "file"
    /\ fevLeft > 0
    /\ fevLeft' = fevLeft - 1
    /\ fAppending' = IF w.appending = <<>> THEN fAppending ELSE w.appending[1]
    /\ fEvents' = Append(fEvents, w.event)
    /\ UNCHANGED <<fData, metaVars, ld, errLeft, errRead, rlWin, diskLeft, evVars>>
    /\ flUnch

\* Another process rewrites the file on disk.
DiskWrite ==
    /\ fKind = "file"
    /\ diskLeft > 0
    /\ diskLeft' = diskLeft - 1
    /\ \E d \in BytesUpTo(MaxLen) : d # fData /\ fData' = d
    /\ UNCHANGED <<metaVars, ld, errLeft, errRead, rlWin, fevLeft, fAppending, fEvents,
                   evVars>>
    /\ flUnch

\* EventSender::send_unique as the loader thread runs it: the swap, and the
\* envelope and the wake when the swap succeeded.
SendUniqueNow(event, inst) ==
    LET r == CompareAndSwap(evFlag[inst], FALSE, TRUE)
    IN /\ evFlag' = [evFlag EXCEPT ![inst] = r.val]
       /\ evQueue' = IF ~r.prev THEN Append(evQueue, Unique(event, inst)) ELSE evQueue
       /\ evWakes' = IF ~r.prev THEN evWakes + 1 ELSE evWakes

\* Event::Appending(index)
Appending(index) == "Appending(" \o ToString(index) \o ")"

\* The top of the loop: meta.length.store(total_length, ..), then the pass
\* over the file when there is one.
FlStoreLength ==
    /\ fKind = "file"
    /\ ld.pc = "spawned"
    /\ mLength' = ld.offset
    /\ ld' = [ld EXCEPT !.pc = IF ld.fileOpen THEN "read" ELSE "post"]
    /\ UNCHANGED <<fData, mNewlines, mFloor, mFinished, mError, mNeeded, mWakerMutex,
                   errLeft, errRead, rlWin, fevLeft, diskLeft, fAppending, fEvents, evVars>>
    /\ flUnch

\* file.read(buffer) returns Ok(len), len > 0: under the write lock of
\* meta.newlines the newlines of the batch are pushed at total_length + i,
\* total_length grows and is stored into meta.length.
FlReadData ==
    /\ fKind = "file"
    /\ ld.pc = "read"
    /\ ld.fpos < Len(fData)
    /\ \E len \in 1 .. Min(Len(fData) - ld.fpos, BUFFER_SIZE) :
        /\ mNewlines' = mNewlines \o NewlineOffsets(fData, ld.fpos, ld.offset, len)
        /\ mLength' = ld.offset + len
        /\ ld' = [ld EXCEPT !.offset = @ + len, !.fpos = @ + len]
    /\ UNCHANGED <<fData, mFloor, mFinished, mError, mNeeded, mWakerMutex,
                   errLeft, errRead, rlWin, fevLeft, diskLeft, fAppending, fEvents, evVars>>
    /\ flUnch

\* file.read(buffer) returns Ok(0): the read loop ends.
FlReadEof ==
    /\ fKind = "file"
    /\ ld.pc = "read"
    /\ ld.fpos >= Len(fData)
    /\ ld' = [ld EXCEPT !.pc = "tail"]
    /\ UNCHANGED <<fData, metaVars, errLeft, errRead, rlWin, fevLeft, diskLeft, fAppending,
                   fEvents, evVars>>
    /\ flUnch

\* file.read(buffer) returns Err of kind Interrupted.
FlReadInterrupted ==
    /\ fKind = "file"
    /\ ld.pc = "read"
    /\ UNCHANGED <<fData, metaVars, ld, errLeft, errRead, rlWin, fevLeft, diskLeft, fAppending,
                   fEvents, evVars>>
    /\ flUnch

\* file.read(buffer) returns another Err: it is stored in meta.error and
\* the read loop goes round again.
FlReadError ==
    /\ fKind = "file"
    /\ ld.pc = "read"
    /\ errLeft > 0
    /\ errLeft' = errLeft - 1
    /\ mError' = TRUE
    /\ UNCHANGED <<fData, mLength, mNewlines, mFloor, mFinished, mNeeded, mWakerMutex,
                   ld, errRead, rlWin, fevLeft, diskLeft, fAppending, fEvents, evVars>>
    /\ flUnch

\* The last bytes of the file are read into end_data: end_len of them when
\* the seek from the end succeeds, none otherwise.  The file is dropped.
FlTail ==
    /\ fKind = "file"
    /\ ld.pc = "tail"
    /\ LET end_len == Min(ld.offset, TAIL_SIZE)
       IN ld' = [ld EXCEPT !.pc = "post", !.fileOpen = FALSE,
                           !.endData = IF Len(fData) >= end_len
                                       THEN Slice(fData, Len(fData) - end_len + 1, Len(fData))
                                       ELSE <<>>]
    /\ UNCHANGED <<fData, metaVars, errLeft, errRead, rlWin, fevLeft, diskLeft, fAppending,
                   fEvents, evVars>>
    /\ flUnch

\* appending.load(..) is true: sleep, then (send_event, reload) =
\* (false, end_data.is_empty()).
FlPostAppending ==
    /\ fKind = "file"
    /\ ld.pc = "post"
    /\ fAppending
    /\ ld' = [ld EXCEPT !.pc = "open", !.sendEvent = FALSE, !.reload = (ld.endData = <<>>)]
    /\ UNCHANGED <<fData, metaVars, errLeft, errRead, rlWin, fevLeft, diskLeft, fAppending,
                   fEvents, evVars>>
    /\ flUnch

\* appending.load(..) is false: meta.finished.store(true, ..).
FlFinish ==
    /\ fKind = "file"
    /\ ld.pc = "post"
    /\ ~fAppending
    /\ mFinished' = TRUE
    /\ ld' = [ld EXCEPT !.pc = "send_loaded"]
    /\ rlWin' = [rlWin EXCEPT !.open = FALSE]
    /\ rd' = [rd EXCEPT !.win = FALSE]
    /\ UNCHANGED <<fData, mLength, mNewlines, mFloor, mError, mNeeded, mWakerMutex,
                   errLeft, errRead, fevLeft, diskLeft, fAppending, fEvents, evVars>>
    /\ UNCHANGED <<fKind, sn, written, ctlVars, restVars>>

\* event_sender.send_unique(Event::Loaded(meta.index), &loaded_instance)?;
FlSendLoaded ==
    /\ fKind = "file"
    /\ ld.pc = "send_loaded"
    /\ SendUniqueNow(Loaded(FileIndex), "loaded")
    /\ ld' = [ld EXCEPT !.pc = "clear_floor"]
    /\ UNCHANGED <<fData, metaVars, errLeft, errRead, rlWin, fevLeft, diskLeft, fAppending,
                   fEvents>>
    /\ evFlUnch
    /\ flUnch

\* *reload_old_line_count = None;
FlClearFloor ==
    /\ fKind = "file"
    /\ ld.pc = "clear_floor"
    /\ mFloor' = <<>>
    /\ ld' = [ld EXCEPT !.pc = "idle"]
    /\ UNCHANGED <<fData, mLength, mNewlines, mFinished, mError, mNeeded, mWakerMutex,
                   errLeft, errRead, rlWin, fevLeft, diskLeft, fAppending, fEvents, evVars>>
    /\ flUnch

\* event_rx.recv(): Append gives (true, end_data.is_empty()), Reload gives
\* (true, true).
FlRecv ==
    /\ fKind = "file"
    /\ ld.pc = "idle"
    /\ fEvents # <<>>
    /\ fEvents' = Tail(fEvents)
    /\ ld' = [ld EXCEPT !.pc = "open", !.sendEvent = TRUE,
                        !.reload = IF Head(fEvents) = "Append" THEN ld.endData = <<>>
                                   ELSE TRUE]
    /\ UNCHANGED <<fData, metaVars, errLeft, errRead, rlWin, fevLeft, diskLeft, fAppending,
                   evVars>>
    /\ flUnch

\* The bytes a read of n bytes at position pos of the file returns.
ReadAt(data, pos, n) ==
    IF pos < 0 \/ pos >= Len(data) THEN <<>>
    ELSE Slice(data, pos + 1, Min(Len(data), pos + n))

\* StdFile::open(&path).  When it succeeds and no reload is decided yet, the
\* tail is read again at total_length - end_data.len() and compared with
\* end_data: a short read or other bytes make it a reload.  The file is
\* left where that read ended.  The subtraction is of two usize: when
\* end_data is longer than total_length it panics in a build with overflow
\* checks, and wraps in one without, where the seek then fails.  When the
\* open fails it is a reload.
FlOpen ==
    /\ fKind = "file"
    /\ ld.pc = "open"
    /\ \E opened \in BOOLEAN :
        IF opened
        THEN LET offset == ld.offset - Len(ld.endData)
                 new_data == ReadAt(fData, offset, Len(ld.endData))
             IN IF ld.reload
                THEN ld' = [ld EXCEPT !.pc = "decide", !.fileOpen = TRUE, !.fpos = 0]
                ELSE IF offset < 0
                THEN \/ ld' = [ld EXCEPT !.pc = "panicked"]
                     \/ ld' = [ld EXCEPT !.pc = "decide", !.fileOpen = TRUE, !.fpos = 0,
                                         !.reload = TRUE]
                ELSE ld' = [ld EXCEPT !.pc = "decide", !.fileOpen = TRUE,
                                      !.fpos = offset + Len(new_data),
                                      !.reload = new_data # ld.endData]
        ELSE ld' = [ld EXCEPT !.pc = "decide", !.reload = TRUE]
    /\ UNCHANGED <<fData, metaVars, errLeft, errRead, rlWin, fevLeft, diskLeft, fAppending,
                   fEvents, evVars>>
    /\ flUnch

\* The floor a reload leaves: the larger of the floor before it and the
\* line count before it.
ReloadFloor(floor, newlines, total_length) ==
    <<Max(UnwrapOr0(floor), LineCount(newlines, total_length))>>

\* if reload: the cache is cleared and, under the write locks of
\* reload_old_line_count and newlines, the floor is raised and newlines
\* cleared; total_length = 0; Reloading is sent when send_event.
FlReload ==
    /\ fKind = "file"
    /\ ld.pc = "decide"
    /\ ld.reload
    /\ mFloor' = ReloadFloor(mFloor, mNewlines, ld.offset)
    /\ mNewlines' = <<>>
    /\ ld' = [ld EXCEPT !.pc = "unfinish", !.offset = 0]
    /\ IF ld.sendEvent
       THEN SendUniqueNow(Reloading(FileIndex), "reloading")
       ELSE UNCHANGED <<evQueue, evFlag, evWakes>>
    /\ rlWin' = IF rlWin.open THEN rlWin
                ELSE [open |-> TRUE, base |-> LinesNow]
    /\ UNCHANGED <<fData, mLength, mFinished, mError, mNeeded, mWakerMutex,
                   errLeft, errRead, fevLeft, diskLeft, fAppending, fEvents>>
    /\ evFlUnch
    /\ flUnch

\* A faulty loader: it continues without the event.
FlAppendingUnsent ==
    /\ fKind = "file"
    /\ ld.pc = "decide"
    /\ ~ld.reload
    /\ ld' = [ld EXCEPT !.pc = "unfinish"]
    /\ UNCHANGED <<fData, metaVars, errLeft, errRead, rlWin, fevLeft, diskLeft, fAppending,
                   fEvents, evVars>>
    /\ flUnch

\* else if send_event: Appending is sent.
FlAppending ==
    /\ fKind = "file"
    /\ ld.pc = "decide"
    /\ ~ld.reload
    /\ ld' = [ld EXCEPT !.pc = "unfinish"]
    /\ IF ld.sendEvent
       THEN SendUniqueNow(Appending(FileIndex), "appending")
       ELSE UNCHANGED <<evQueue, evFlag, evWakes>>
    /\ UNCHANGED <<fData, metaVars, errLeft, errRead, rlWin, fevLeft, diskLeft, fAppending,
                   fEvents>>
    /\ evFlUnch
    /\ flUnch

\* meta.finished.store(false, ..); and the loop goes round.
FlUnfinish ==
    /\ fKind = "file"
    /\ ld.pc = "unfinish"
    /\ mFinished' = FALSE
    /\ ld' = [ld EXCEPT !.pc = "spawned"]
    /\ UNCHANGED <<fData, mLength, mNewlines, mFloor, mError, mNeeded, mWakerMutex,
                   errLeft, errRead, rlWin, fevLeft, diskLeft, fAppending, fEvents, evVars>>
    /\ flUnch

\* BufferCache::with_slice(start, end, ..) on blocks read from the file as
\* it is now: inside one block the bytes the file has of [start, end), and
\* across blocks a copy of end - start bytes, zeros where the file has none.
CacheSlice(data, start, end) ==
    IF start \div BUFFER_SIZE = (end - 1) \div BUFFER_SIZE
    THEN ReadAt(data, start, end - start)
    ELSE [i \in 1 .. (end - start) |->
            IF start + i <= Len(data) THEN data[start + i] ELSE "0"]

\* FileData::with_slice for a file on disk: a newline before the last byte
\* of the line sends FileEvent::Reload to the loader.
HasInnerNewline(bytes) == \E i \in 1 .. Len(bytes) - 1 : bytes[i] = NL

\* File::with_line on a file on disk.
RdWithLineFile(index) ==
    /\ fKind = "file"
    /\ rd.pc = "idle"
    /\ LET r == WithLine(index, mNewlines, mLength)
       IN IF r.some /\ r.start < r.end /\ HasInnerNewline(CacheSlice(fData, r.start, r.end))
          THEN /\ fevLeft > 0
               /\ fevLeft' = fevLeft - 1
               /\ fEvents' = Append(fEvents, "Reload")
          ELSE UNCHANGED <<fevLeft, fEvents>>
    /\ UNCHANGED <<fKind, fData, metaVars, ld, written, errLeft, errRead, rd, sn, rlWin,
                   diskLeft, fAppending, evVars, ctlVars, restVars>>

RandomFileNext ==
    \/ \E w \in WatchEvents : Watch(w)
    \/ DiskWrite
    \/ FlStoreLength
    \/ FlReadData
    \/ FlReadEof
    \/ FlReadInterrupted
    \/ FlReadError
    \/ FlTail
    \/ FlPostAppending
    \/ FlFinish
    \/ FlSendLoaded
    \/ FlClearFloor
    \/ FlRecv
    \/ FlOpen
    \/ FlReload
    \/ FlAppending
    \/ FlUnfinish
    \/ \E i \in 0 .. MaxLen : RdWithLineFile(i)

(***************************************************************************)
(* file.rs: the calls a reader thread makes on a File                      *)
(***************************************************************************)
rdUnch == UNCHANGED <<fKind, fData, metaVars, ld, written, errLeft, errRead, sn, rlWin,
                      fevLeft, diskLeft, fAppending, fEvents, evVars, ctlVars, restVars>>

\* File::lines: self.meta.finished.load(..).
RdLinesFinished ==
    /\ rd.pc = "idle"
    /\ rd' = [pc |-> IF mFinished THEN "lines_count" ELSE "lines_floor",
              fin |-> mFinished, floor |-> <<>>, win |-> rlWin.open]
    /\ rdUnch

\* File::lines: the read of reload_old_line_count, when not finished.
RdLinesFloor ==
    /\ rd.pc = "lines_floor"
    /\ rd' = [rd EXCEPT !.pc = "lines_count", !.floor = mFloor]
    /\ rdUnch

\* What the call of lines() in progress returns when its last step is
\* taken now: newlines is read-locked, length loaded, the maximum returned.
LinesReturned == LinesFrom(rd.fin, rd.floor, mNewlines, mLength)

\* File::lines: the last step, and the return.
RdLinesCount ==
    /\ rd.pc = "lines_count"
    /\ rd' = [pc |-> "idle", fin |-> FALSE, floor |-> <<>>, win |-> FALSE]
    /\ rdUnch

\* File::paused: !self.loaded(); a loaded file is not paused.
RdPausedLoaded ==
    /\ rd.pc = "idle"
    /\ rd' = IF mFinished THEN rd ELSE [rd EXCEPT !.pc = "paused_lock", !.fin = mFinished]
    /\ rdUnch

\* What the call of paused() in progress returns when its last step is
\* taken now.
PausedReturned == PausedFrom(rd.fin, mWakerMutex)

\* File::paused: self.meta.waker_mutex.try_lock().is_ok(); the guard is
\* dropped at once.
RdPausedTryLock ==
    /\ rd.pc = "paused_lock"
    /\ rd' = [pc |-> "idle", fin |-> FALSE, floor |-> <<>>, win |-> FALSE]
    /\ rdUnch

RdLines ==
    \/ RdLinesFinished
    \/ RdLinesFloor
    \/ RdLinesCount

ReaderNext ==
    \/ RdLines
    \/ RdPausedLoaded
    \/ RdPausedTryLock

(***************************************************************************)
(* file.rs: File::set_needed_lines, called from any thread                 *)
(***************************************************************************)
snUnch == UNCHANGED <<fKind, fData, mLength, mNewlines, mFloor, mFinished, mError,
                      mWakerMutex, written, errLeft, errRead, rd, rlWin,
                      fevLeft, diskLeft, fAppending, fEvents, evVars, ctlVars, restVars>>

\* A faulty call: the value is stored whatever is there.
SnLoadAlwaysStores(c, lines) ==
    /\ fKind = "streamed"
    /\ sn[c].pc = "idle"
    /\ sn' = [sn EXCEPT ![c] = [pc |-> "store", arg |-> lines]]
    /\ UNCHANGED <<mNeeded, ld>>
    /\ snUnch

\* if self.meta.needed_lines.load(..) >= lines { return; }
\* The call is "only effective for streamed input": it is made on a
\* streamed file.  An idle caller keeps the argument of its last call.
SnLoad(c, lines) ==
    /\ fKind = "streamed"
    /\ sn[c].pc = "idle"
    /\ sn' = [sn EXCEPT ![c] = IF mNeeded >= lines THEN [pc |-> "idle", arg |-> lines]
                                 ELSE [pc |-> "store", arg |-> lines]]
    /\ UNCHANGED <<mNeeded, ld>>
    /\ snUnch

\* self.meta.needed_lines.store(lines, ..);
SnStore(c) ==
    /\ sn[c].pc = "store"
    /\ mNeeded' = sn[c].arg
    /\ sn' = [sn EXCEPT ![c].pc = "notify"]
    /\ UNCHANGED ld
    /\ snUnch

\* self.meta.waker.notify_all(): a thread blocked in wait is woken; with no
\* thread waiting the notification is lost.
SnNotify(c) ==
    /\ sn[c].pc = "notify"
    /\ ld' = [ld EXCEPT !.pc = IF @ = "waiting" THEN "woken" ELSE @]
    /\ sn' = [sn EXCEPT ![c].pc = "idle"]
    /\ UNCHANGED mNeeded
    /\ snUnch

CallerNext ==
    \/ \E c \in Callers, n \in 1 .. MaxNeeded : SnLoad(c, n)
    \/ \E c \in Callers : SnStore(c)
    \/ \E c \in Callers : SnNotify(c)

(***************************************************************************)
(* buffer_cache.rs: BufferCache.  A Buffer is the sequence of its filled   *)
(* bytes; block_size is its capacity.                                      *)
(***************************************************************************)
\* What goes wrong during one with_slice call: nothing, the open of the
\* file, the seek of a positioned read, or its read.
Faults == {"none", "open_err", "seek_err", "read_err"}

\* Buffer::available: the number of bytes committed.
Available(buffer) == Len(buffer)

\* Vec::resize(n, 0)
Resize(v, n) ==
    IF n <= Len(v) THEN SubSeq(v, 1, n)
    ELSE v \o [i \in 1 .. (n - Len(v)) |-> "0"]

\* fn fill_buffer: nothing to do when the buffer holds buffer_offset + len
\* bytes; else seek to file_offset (an error is ignored) and one read into
\* the unfilled part of the buffer, whose error is returned.
FillBuffer(disk, buffer, file_offset, buffer_offset, len, fault) ==
    IF buffer_offset + len <= Available(buffer) THEN [err |-> FALSE, buffer |-> buffer]
    ELSE IF fault = "seek_err" THEN [err |-> FALSE, buffer |-> buffer]
    ELSE IF fault = "read_err" THEN [err |-> TRUE, buffer |-> buffer]
    ELSE [err |-> FALSE,
          buffer |-> buffer \o ReadAt(disk, file_offset, block_size - Available(buffer))]

\* The place of a block in the cache, 0 when it is not cached.
CacheIndex(cache, block_index) ==
    IF \E i \in 1 .. Len(cache) : cache[i].block = block_index
    THEN CHOOSE i \in 1 .. Len(cache) : cache[i].block = block_index
    ELSE 0

\* LruCache::get_mut on a cached block, with its buffer as it is left: the
\* entry becomes the most recently used.
CacheTouch(cache, i, buffer) ==
    SubSeq(cache, 1, i - 1) \o SubSeq(cache, i + 1, Len(cache))
        \o <<[block |-> cache[i].block, buffer |-> buffer]>>

\* LruCache::put of a block that is not cached: the least recently used
\* entry goes when the cache is full.
CachePut(cache, block_index, buffer) ==
    (IF Len(cache) >= capacity THEN Tail(cache) ELSE cache)
        \o <<[block |-> block_index, buffer |-> buffer]>>

\* BufferCache::get_buffer on the state s = [cache, open]: the file is
\* opened when it is not, then the cached buffer of the block is filled for
\* [start, end), or a new buffer is filled with the block and cached.
GetBuffer(s, disk, start, end, fault) ==
    LET block_index == start \div block_size
        block_offset == start % block_size
        i == CacheIndex(s.cache, block_index)
    IN IF ~s.open /\ fault = "open_err"
       THEN [err |-> TRUE, cache |-> s.cache, open |-> FALSE, buffer |-> <<>>]
       ELSE IF i > 0
       THEN LET r == FillBuffer(disk, s.cache[i].buffer, start, block_offset,
                                end - start, fault)
            IN [err |-> r.err, cache |-> CacheTouch(s.cache, i, r.buffer), open |-> TRUE,
                buffer |-> r.buffer]
       ELSE LET r == FillBuffer(disk, <<>>, block_index * block_size, 0, block_size, fault)
            IN [err |-> r.err,
                cache |-> IF r.err THEN s.cache
                          ELSE CachePut(s.cache, block_index, r.buffer),
                open |-> TRUE, buffer |-> r.buffer]

\* BufferCache::get_data: the bytes the buffer of the block has of
\* [start, end).
GetData(s, disk, start, end, fault) ==
    LET r == GetBuffer(s, disk, start, end, fault)
        data_start == Min(Len(r.buffer), start % block_size)
        data_end == Min(Len(r.buffer), ((end - 1) % block_size) + 1)
    IN [err |-> r.err, cache |-> r.cache, open |-> r.open,
        data |-> IF r.err THEN <<>> ELSE Slice(r.buffer, data_start + 1, data_end)]

\* The copy of with_slice over the blocks b .. end_block, after the bytes v
\* of the blocks before: each block's bytes are appended and the copy is
\* resized with zeros up to the end of the block (of the range, for the
\* last block).  An error ends it.
RECURSIVE CopyBlocks(_, _, _, _, _, _, _, _)
CopyBlocks(s, disk, start, end, b, end_block, v, fault) ==
    LET piece_start == IF b = start \div block_size THEN start ELSE b * block_size
        piece_end == IF b = end_block THEN end ELSE (b + 1) * block_size
        r == GetData(s, disk, piece_start, piece_end, fault)
        w == Resize(v \o r.data, piece_end - start)
        t == [cache |-> r.cache, open |-> r.open]
    IN IF r.err THEN [err |-> TRUE, cache |-> r.cache, open |-> r.open, data |-> <<>>]
       ELSE IF b = end_block THEN [err |-> FALSE, cache |-> r.cache, open |-> r.open,
                                   data |-> w]
       ELSE CopyBlocks(t, disk, start, end, b + 1, end_block, w, fault)

\* BufferCache::with_slice: what call is given, or the error.
WithSlice(s, disk, start, end, fault) ==
    LET start_block == start \div block_size
        end_block == (end - 1) \div block_size
    IN IF start_block = end_block
       THEN GetData(s, disk, start, end, fault)
       ELSE CopyBlocks(s, disk, start, end, start_block, end_block, <<>>, fault)

cacheIdle ==
    /\ bcOpen = FALSE
    /\ bcCache = <<>>
    /\ bcOut = [kind |-> "none", start |-> 0, end |-> 0, fault |-> "none", data |-> <<>>]

cacheNone ==
    /\ cacheIdle
    /\ bcDisk = <<>>
    /\ bcLeft = 0
    /\ bcWrites = 0

\* One call of with_slice(start, end, call), under the mutex of the cache.
BcWithSlice(start, end, fault) ==
    /\ start < end
    /\ bcLeft > 0
    /\ bcLeft' = bcLeft - 1
    /\ LET r == WithSlice([cache |-> bcCache, open |-> bcOpen], bcDisk, start, end, fault)
       IN /\ bcCache' = r.cache
          /\ bcOpen' = r.open
          /\ bcOut' = [kind |-> IF r.err THEN "Err" ELSE "Ok", start |-> start, end |-> end,
                       fault |-> fault, data |-> r.data]
    /\ UNCHANGED <<bcDisk, bcWrites, exceptCache>>

\* BufferCache::clear
BcClear ==
    /\ bcCache # <<>> \/ bcOpen
    /\ bcCache' = <<>>
    /\ bcOpen' = FALSE
    /\ UNCHANGED <<bcDisk, bcOut, bcLeft, bcWrites, exceptCache>>

\* Another process appends a byte to the file, or truncates it by one.
BcDiskWrite ==
    /\ bcWrites > 0
    /\ bcWrites' = bcWrites - 1
    /\ \/ \E c \in Bytes : Len(bcDisk) < MaxCacheLen /\ bcDisk' = Append(bcDisk, c)
       \/ bcDisk # <<>> /\ bcDisk' = SubSeq(bcDisk, 1, Len(bcDisk) - 1)
    /\ UNCHANGED <<bcOpen, bcCache, bcOut, bcLeft, exceptCache>>

CacheNext ==
    \/ \E start \in 0 .. MaxCacheLen, end \in 1 .. MaxCacheLen + 1, fault \in Faults :
          BcWithSlice(start, end, fault)
    \/ BcClear
    \/ BcDiskWrite

\* The components below the file loaders, when a specification has none
\* of them.
(***************************************************************************)
(* refresh.rs                                                              *)
(***************************************************************************)
RefreshNone == [kind |-> "None", s |-> 0, e |-> 0, b |-> {}]

RefreshRange(s, e) == [kind |-> "Range", s |-> s, e |-> e, b |-> {}]

RefreshLines(b) == [kind |-> "Lines", s |-> 0, e |-> 0, b |-> b]

RefreshAll == [kind |-> "All", s |-> 0, e |-> 0, b |-> {}]

\* usize::saturating_sub
SaturatingSub(a, b) == IF a >= b THEN a - b ELSE 0

\* Refresh::add_range
AddRange(refresh, start, end) ==
    CASE refresh.kind = "None" -> RefreshRange(start, end)
      [] refresh.kind = "Range" ->
            IF start > refresh.e \/ refresh.s > end
            THEN RefreshLines((refresh.s .. refresh.e - 1) \cup (start .. end - 1))
            ELSE RefreshRange(Min(start, refresh.s), Max(end, refresh.e))
      [] refresh.kind = "Lines" -> RefreshLines(refresh.b \cup (start .. end - 1))
      [] OTHER -> refresh

\* A faulty rotation: the lines that roll past 0 are kept at 0.
RotateRangeUpClamped(refresh, step) ==
    CASE refresh.kind = "Range" ->
            IF step > refresh.e THEN RefreshNone
            ELSE RefreshRange(SaturatingSub(refresh.s, step), refresh.e - step)
      [] refresh.kind = "Lines" ->
            LET new_b == {SaturatingSub(line, step) : line \in refresh.b}
            IN IF new_b = {} THEN RefreshNone ELSE RefreshLines(new_b)
      [] OTHER -> refresh

\* Refresh::rotate_range_up
RotateRangeUp(refresh, step) ==
    CASE refresh.kind = "Range" ->
            IF step > refresh.e THEN RefreshNone
            ELSE RefreshRange(SaturatingSub(refresh.s, step), refresh.e - step)
      [] refresh.kind = "Lines" ->
            LET new_b == {line - step : line \in {l \in refresh.b : l >= step}}
            IN IF new_b = {} THEN RefreshNone ELSE RefreshLines(new_b)
      [] OTHER -> refresh

\* Refresh::rotate_range_down
RotateRangeDown(refresh, step) ==
    CASE refresh.kind = "Range" -> RefreshRange(refresh.s + step, refresh.e + step)
      [] refresh.kind = "Lines" -> RefreshLines({line + step : line \in refresh.b})
      [] OTHER -> refresh

\* Whether the row must be rendered.
Dirty(refresh, row) ==
    CASE refresh.kind = "None" -> FALSE
      [] refresh.kind = "Range" -> refresh.s <= row /\ row < refresh.e
      [] refresh.kind = "Lines" -> row \in refresh.b
      [] OTHER -> TRUE

\* The Refresh values over the rows of a screen.
Refreshes ==
    {RefreshNone, RefreshAll}
        \cup {r \in {RefreshRange(s, e) : s \in 0..MaxRow, e \in 0..MaxRow} : r.s <= r.e}
        \cup {RefreshLines(b) : b \in SUBSET (0..MaxRow - 1)}

refreshNone ==
    /\ rf = RefreshNone
    /\ rfLog = <<>>
    /\ rfLeft = 0

Called(op, step) == Append(rfLog, [op |-> op, step |-> step, on |-> rf])

RfAddRange(start, end) ==
    /\ rfLeft > 0
    /\ start <= end
    /\ rf' = AddRange(rf, start, end)
    /\ rfLog' = Called("add_range", 0)
    /\ rfLeft' = rfLeft - 1
    /\ UNCHANGED exceptRefresh

RfRotateRangeUp(step) ==
    /\ rfLeft > 0
    /\ rf' = RotateRangeUp(rf, step)
    /\ rfLog' = Called("rotate_range_up", step)
    /\ rfLeft' = rfLeft - 1
    /\ UNCHANGED exceptRefresh

RfRotateRangeDown(step) ==
    /\ rfLeft > 0
    /\ rf' = RotateRangeDown(rf, step)
    /\ rfLog' = Called("rotate_range_down", step)
    /\ rfLeft' = rfLeft - 1
    /\ UNCHANGED exceptRefresh

RefreshNext ==
    \/ \E start, end \in 0..MaxRow : RfAddRange(start, end)
    \/ \E step \in 0..MaxStep : RfRotateRangeUp(step)
    \/ \E step \in 0..MaxStep : RfRotateRangeDown(step)

(***************************************************************************)
(* screen.rs: the view position and the scrolling of Screen::render        *)
(***************************************************************************)
\* The order of Rust tuples (line, portion).
TupleLess(a, b) == a[1] < b[1] \/ (a[1] = b[1] /\ a[2] < b[2])

TupleLeq(a, b) == a = b \/ TupleLess(a, b)

\* Line::height of the line of the file with the given index.
LineHeight(heights, line) == heights[line + 1]

\* render: the maximum view position that still fills the file view.
RECURSIVE EndTopLine(_, _, _)
EndTopLine(heights, top_line, remaining) ==
    IF top_line > 0 /\ remaining > 0
    THEN LET line_height == LineHeight(heights, top_line - 1)
         IN IF line_height > remaining
            THEN <<top_line - 1, line_height - remaining>>
            ELSE EndTopLine(heights, top_line - 1, remaining - line_height)
    ELSE <<top_line, 0>>

\* render, following_end: the rows from the view position to the end
\* anchor, as <<scroll_line, scroll_line_portion, scroll_by>> at the end of
\* the loop.
RECURSIVE ScrollBy(_, _, _, _, _, _)
ScrollBy(heights, view, end_top_line, scroll_line, scroll_line_portion, scroll_by) ==
    IF scroll_line < end_top_line
    THEN LET by == scroll_by
                   + SaturatingSub(LineHeight(heights, scroll_line), scroll_line_portion)
         IN IF by > view
            THEN <<scroll_line, scroll_line_portion, by>>
            ELSE ScrollBy(heights, view, end_top_line, scroll_line + 1, 0, by)
    ELSE <<scroll_line, scroll_line_portion, scroll_by>>

\* render, following_end: Some(relative_scroll) as a number, None as -1.
RelativeScroll(heights, view, end, top) ==
    IF TupleLeq(top, end)
    THEN LET r == ScrollBy(heights, view, end[1], top[1], top[2], 0)
         IN IF r[1] = end[1] THEN r[3] + SaturatingSub(end[2], r[2]) ELSE -1
    ELSE -1

\* render, pending_relative_scroll < 0: the loop over the lines above.
RECURSIVE ScrollUpLines(_, _, _)
ScrollUpLines(heights, top, scroll_up) ==
    IF scroll_up > 0 /\ top[1] > 0
    THEN LET line_height == LineHeight(heights, top[1] - 1)
         IN IF line_height > scroll_up
            THEN <<top[1] - 1, line_height - scroll_up>>
            ELSE ScrollUpLines(heights, <<top[1] - 1, 0>>, scroll_up - line_height)
    ELSE top

ScrollUp(heights, top, scroll_up) ==
    LET top_line_remaining == IF top[2] > 0 THEN Min(top[2], scroll_up) ELSE 0
    IN ScrollUpLines(heights, <<top[1], top[2] - top_line_remaining>>,
                     scroll_up - top_line_remaining)

\* render, pending_relative_scroll > 0.  A line past the end of the file
\* has no Line, and is stepped over.
RECURSIVE ScrollDown(_, _, _, _)
ScrollDown(heights, top, scroll_down, max_top) ==
    IF scroll_down > 0 /\ TupleLess(top, max_top)
    THEN IF top[1] < Len(heights)
         THEN LET line_height_remaining ==
                      SaturatingSub(LineHeight(heights, top[1]), top[2])
              IN IF line_height_remaining > scroll_down
                 THEN <<top[1], top[2] + scroll_down>>
                 ELSE ScrollDown(heights, <<top[1] + 1, 0>>,
                                 scroll_down - line_height_remaining, max_top)
         ELSE ScrollDown(heights, <<top[1] + 1, 0>>, scroll_down, max_top)
    ELSE top

\* render: the maximum position of a downward scroll.
MaxTopLine(heights, past_eof, end) ==
    IF past_eof
    THEN LET last_line == SaturatingSub(Len(heights), 1)
         IN <<last_line,
              SaturatingSub(IF last_line < Len(heights) THEN LineHeight(heights, last_line)
                            ELSE 1, 1)>>
    ELSE end

\* Screen::new
screenIdle ==
    /\ scTop = <<0, 0>>
    /\ scFollow = FALSE
    /\ scAbs = -1
    /\ scRel = 0
    /\ scEnd = <<0, 0>>
    /\ scRendered = FALSE

screenNone ==
    /\ screenIdle
    /\ scHeights = <<>>
    /\ scView = 0
    /\ scPastEof = FALSE
    /\ scLeft = 0

scUnch == UNCHANGED <<scHeights, scView, scPastEof, scEnd, exceptScreen>>

\* A faulty loop: a key is read while the render of the key before it is
\* still queued.
KeyIsReadBeforeRender == TRUE

\* The display loop takes a key from the terminal only when the event queue
\* is empty, and every key that scrolls queues Event::Render: the render of
\* one key is made before the next key is read (display::start, and
\* EventStream::get).  The first render is made before the loop.
KeyIsRead == scRendered

\* The file of the screen grows by one line.
ScNewLine(h) ==
    /\ Len(scHeights) < MaxFileLines
    /\ scHeights' = Append(scHeights, h)
    /\ UNCHANGED <<scView, scPastEof, scTop, scFollow, scAbs, scRel, scEnd, scRendered,
                   scLeft, exceptScreen>>

\* Screen::scroll_to, from a search match, which the search thread sends at
\* any time, the go-to-line prompt or ScrollToTop.
ScScrollTo(line) ==
    /\ scLeft > 0
    /\ line < Len(scHeights)
    /\ scAbs' = line
    /\ scRel' = 0
    /\ scFollow' = FALSE
    /\ scRendered' = FALSE
    /\ scLeft' = scLeft - 1
    /\ UNCHANGED scTop
    /\ scUnch

\* Screen::scroll_up
ScScrollUp(step) ==
    /\ scLeft > 0
    /\ KeyIsRead
    /\ scRel' = scRel - step
    /\ scFollow' = FALSE
    /\ scRendered' = FALSE
    /\ scLeft' = scLeft - 1
    /\ UNCHANGED <<scTop, scAbs>>
    /\ scUnch

\* Screen::scroll_down
ScScrollDown(step) ==
    /\ scLeft > 0
    /\ KeyIsRead
    /\ scRel' = scRel + step
    /\ scFollow' = FALSE
    /\ scRendered' = FALSE
    /\ scLeft' = scLeft - 1
    /\ UNCHANGED <<scTop, scAbs>>
    /\ scUnch

\* Screen::dispatch_key, ScrollToBottom
ScScrollToBottom ==
    /\ scLeft > 0
    /\ KeyIsRead
    /\ ~scFollow
    /\ scFollow' = TRUE
    /\ scRendered' = FALSE
    /\ scLeft' = scLeft - 1
    /\ UNCHANGED <<scTop, scAbs, scRel>>
    /\ scUnch

\* The lines that Screen::render assigns to the rows of the file view, from
\* the line file_line on: file_line_rows.len().
RECURSIVE FileLineRows(_, _, _, _, _)
FileLineRows(heights, file_line, top_portion, row, view) ==
    IF file_line >= Len(heights) THEN 0
    ELSE LET visible_line_height ==
                 Min(SaturatingSub(heights[file_line + 1], top_portion), view - row)
         IN IF row + visible_line_height >= view THEN 1
            ELSE 1 + FileLineRows(heights, file_line + 1, 0, row + visible_line_height, view)

\* render.bottom_line of a render that leaves the view at top.
BottomLine(heights, top, view) == top[1] + FileLineRows(heights, top[1], top[2], 0, view)

\* Screen::render, as far as the view position goes.
ScRender ==
    /\ scLeft > 0
    /\ LET end == EndTopLine(scHeights, Len(scHeights), scView)
           relative_scroll == RelativeScroll(scHeights, scView, end, scTop)
           \* following_end
           top1 == IF scFollow /\ relative_scroll = -1 THEN end ELSE scTop
           rel1 == IF scFollow /\ relative_scroll # -1 THEN relative_scroll ELSE scRel
           \* pending absolute scroll
           top2 == IF scAbs # -1 THEN <<scAbs, 0>> ELSE top1
           rel2 == IF scAbs # -1 THEN rel1 - (scView \div 2) ELSE rel1
       IN /\ scEnd' = end
          /\ scTop' = IF rel2 < 0 THEN ScrollUp(scHeights, top2, -rel2)
                      ELSE IF rel2 > 0
                           THEN ScrollDown(scHeights, top2, rel2,
                                           MaxTopLine(scHeights, scPastEof, end))
                           ELSE top2
    /\ scAbs' = -1
    /\ scRel' = 0
    /\ scRendered' = TRUE
    /\ scLeft' = scLeft - 1
    /\ UNCHANGED <<scHeights, scView, scPastEof, scFollow, exceptScreen>>

ScreenNext ==
    \/ \E line \in 0..MaxFileLines - 1 : ScScrollTo(line)
    \/ \E step \in 1..MaxScroll : ScScrollUp(step)
    \/ \E step \in 1..MaxScroll : ScScrollDown(step)
    \/ ScScrollToBottom
    \/ \E h \in 1..MaxLineHeight : ScNewLine(h)
    \/ ScRender

\* The files of a screen: the heights of their lines.
RECURSIVE HeightsUpTo(_)
HeightsUpTo(n) ==
    IF n = 0 THEN {<<>>}
    ELSE HeightsUpTo(n - 1)
             \cup {Append(h, x) : h \in {g \in HeightsUpTo(n - 1) : Len(g) = n - 1},
                                  x \in 1..MaxLineHeight}

(***************************************************************************)
(* direct.rs, and display::start                                           *)
(***************************************************************************)
DirectFiles == {"out", "err", "more"}

\* output_files and error_files of direct(): display::start passes the
\* first output file and the first error file only.
Listed(files) == files \cap {"out", "err"}

\* File::lines
FileLines(file) == file.full + (IF file.partial THEN 1 ELSE 0)

\* A faulty collect_unread: the incomplete last line is not set aside.
CollectUnreadToTheEnd(file, last, max_lines) ==
    IF FileLines(file) >= last THEN Min(last + max_lines, FileLines(file)) ELSE last

\* collect_unread for one file: the new last_read of the file.  The lines
\* from last up to it are appended to the result.
CollectUnread(file, last, max_lines) ==
    LET lines == IF FileLines(file) > 0 /\ ~file.loaded /\ file.partial
                 THEN FileLines(file) - 1
                 ELSE FileLines(file)
    IN IF lines >= last THEN Min(last + max_lines, lines) ELSE last

\* StreamingLines::height
Height(state) == state.count + state.lines + state.err + state.prog

\* A faulty mode test: no mode buffers.
DelayedNever(mode) == FALSE

\* let delayed = delayed_deadline.is_some()
Delayed(mode) == mode = "Delayed"

\* A faulty limit: every mode stops at one screen.
HasOneScreenLimitAlways(mode) == TRUE

\* has_one_screen_limit
HasOneScreenLimit(mode) == mode # "Direct"

\* The closure render of direct(): the lines collected, the StreamingLines
\* and the terminal after it, and what it returned ("-" for Ok(None)).
Render(mode, files, file, last_read, state, term, h, progress_lines) ==
    LET last(f) == IF f \in Listed(files)
                   THEN CollectUnread(file[f], last_read[f], h + 2)
                   ELSE last_read[f]
        out == last("out") - last_read["out"]
        err == last("err") - last_read["err"]
        new_last == [f \in DirectFiles |-> last(f)]
    IN IF Delayed(mode)
       THEN LET st == [count |-> state.count, lines |-> state.lines + out,
                       err |-> state.err + err, prog |-> progress_lines]
            IN [last_read |-> new_last, state |-> st, term |-> term,
                outcome |-> IF HasOneScreenLimit(mode) /\ Height(st) >= h
                            THEN "RenderNothing" ELSE "-"]
       ELSE LET unchanged == out = 0 /\ err = 0 /\ progress_lines = state.prog
                st == IF unchanged THEN state
                      ELSE [count |-> state.count + out, lines |-> state.lines,
                            err |-> state.err + err, prog |-> progress_lines]
            IN IF HasOneScreenLimit(mode) /\ Height(st) >= h
               THEN [last_read |-> new_last, state |-> st, term |-> term,
                     outcome |-> "RenderIncomplete"]
               ELSE [last_read |-> new_last, state |-> st,
                     term |-> [out |-> IF unchanged THEN term.out ELSE term.out + out,
                               err |-> IF unchanged THEN term.err ELSE st.err,
                               renders |-> Min(term.renders + 1, MaxRenders)],
                     outcome |-> "-"]

\* display::start: the outcomes after which the full-screen loop begins.
EntersFullScreen(outcome) == outcome \in {"RenderNothing", "RenderIncomplete"}

\* A faulty start: every outcome that goes full-screen uses the alternate
\* screen.
EntersAlternateScreenAlways(outcome) == outcome \in {"RenderNothing", "RenderIncomplete"}

\* display::start: the outcome after which the alternate screen is entered.
EntersAlternateScreen(outcome) == outcome = "RenderNothing"

NoFile == [full |-> 0, partial |-> FALSE, loaded |-> FALSE, ev |-> "none"]

directIdle ==
    /\ drExpired = FALSE
    /\ drPc = "init"
    /\ drLastRead = [f \in DirectFiles |-> 0]
    /\ drLoaded = {}
    /\ drRemaining = 0
    /\ drState = [count |-> 0, lines |-> 0, err |-> 0, prog |-> 0]
    /\ drTerm = [out |-> 0, err |-> 0, renders |-> 0]
    /\ drOutcome = [is |-> "-", at |-> "-"]
    /\ dsPc = "direct"
    /\ dsAlt = FALSE
    /\ dsRestored = FALSE
    /\ dsCursor = "Default"

directNone ==
    /\ directIdle
    /\ drMode = "FullScreen"
    /\ drFiles = {}
    /\ drFile = [f \in DirectFiles |-> NoFile]
    /\ drRows = 0

\* A loader thread reads one more line of its file, or the beginning of one.
DrFileAppend(f) ==
    /\ f \in Listed(drFiles)
    /\ ~drFile[f].loaded
    /\ \/ /\ drFile[f].full < (IF f = "out" THEN MaxDirectLines ELSE MaxErrorLines)
          /\ drFile' = [drFile EXCEPT ![f].full = @ + 1, ![f].partial = FALSE]
       \/ /\ ~drFile[f].partial
          /\ FileLines(drFile[f]) < (IF f = "out" THEN MaxDirectLines ELSE MaxErrorLines)
          /\ drFile' = [drFile EXCEPT ![f].partial = TRUE]
    /\ UNCHANGED <<drMode, drFiles, drRows, drExpired, drPc, drLastRead, drLoaded,
                   drRemaining, drState, drTerm, drOutcome, dsPc, dsAlt, dsRestored, dsCursor, exceptDirect>>

\* A loader thread reaches the end of its file and sends Event::Loaded.
DrFileLoaded(f) ==
    /\ f \in drFiles
    /\ ~drFile[f].loaded
    /\ drFile' = [drFile EXCEPT ![f].loaded = TRUE, ![f].ev = "queued"]
    /\ UNCHANGED <<drMode, drFiles, drRows, drExpired, drPc, drLastRead, drLoaded,
                   drRemaining, drState, drTerm, drOutcome, dsPc, dsAlt, dsRestored, dsCursor, exceptDirect>>

\* Time passes the deadline of Delayed mode.
DrDeadline ==
    /\ drMode = "Delayed"
    /\ ~drExpired
    /\ drPc # "done"
    /\ drExpired' = TRUE
    /\ UNCHANGED <<drMode, drFiles, drFile, drRows, drPc, drLastRead, drLoaded,
                   drRemaining, drState, drTerm, drOutcome, dsPc, dsAlt, dsRestored, dsCursor, exceptDirect>>

\* direct(), up to its loop.
DrStart ==
    /\ drPc = "init"
    /\ IF drMode = "FullScreen"
       THEN /\ drPc' = "done"
            /\ drOutcome' = [is |-> "RenderNothing", at |-> "mode"]
            /\ UNCHANGED drRemaining
       ELSE /\ drPc' = "loop"
            /\ drRemaining' = Cardinality(Listed(drFiles))
            /\ UNCHANGED drOutcome
    /\ UNCHANGED <<drMode, drFiles, drFile, drRows, drExpired, drLastRead, drLoaded,
                   drState, drTerm, dsPc, dsAlt, dsRestored, dsCursor, exceptDirect>>

\* The events EventStream::get hands to the loop of direct(): a Loaded
\* event first if one is queued, else a key, a resize, or None at the
\* timeout; "other" is any other event of the bus.
DirectEvents ==
    {[kind |-> "Loaded", file |-> f] : f \in {g \in drFiles : drFile[g].ev = "queued"}}
        \cup {[kind |-> "other", file |-> "-"]}
        \cup (IF \E g \in drFiles : drFile[g].ev = "queued" THEN {}
              ELSE {[kind |-> k, file |-> "-"] : k \in {"None", "q", "f", "Resized"}})

\* One pass of the loop of direct(): the event, the deadline, the render.
DrLoop(event, rows, progress_lines) ==
    /\ drPc = "loop"
    /\ drRemaining > 0
    /\ event \in DirectEvents
    /\ event.kind # "Resized" => rows = drRows
    /\ drFile' = IF event.kind = "Loaded"
                 THEN [drFile EXCEPT ![event.file].ev = "received"]
                 ELSE drFile
    /\ drLoaded' = IF event.kind = "Loaded" THEN drLoaded \cup {event.file} ELSE drLoaded
    /\ drRemaining' = IF event.kind = "Loaded" /\ event.file \notin drLoaded
                      THEN drRemaining - 1
                      ELSE drRemaining
    /\ drRows' = rows
    /\ IF event.kind = "q"
       THEN /\ drOutcome' = [is |-> "Interrupted", at |-> "key"]
            /\ drPc' = "done"
            /\ UNCHANGED <<drLastRead, drState, drTerm>>
       ELSE IF event.kind = "f"
       THEN /\ drOutcome' = [is |-> IF Delayed(drMode) THEN "RenderNothing"
                                     ELSE "RenderIncomplete",
                             at |-> "key"]
            /\ drPc' = "done"
            /\ UNCHANGED <<drLastRead, drState, drTerm>>
       ELSE IF drMode = "Delayed" /\ drExpired
       THEN /\ drOutcome' = [is |-> "RenderNothing", at |-> "deadline"]
            /\ drPc' = "done"
            /\ UNCHANGED <<drLastRead, drState, drTerm>>
       ELSE LET r == Render(drMode, drFiles, drFile, drLastRead, drState, drTerm, rows,
                            progress_lines)
            IN /\ drLastRead' = r.last_read
               /\ drState' = r.state
               /\ drTerm' = r.term
               /\ drOutcome' = IF r.outcome = "-" THEN drOutcome
                               ELSE [is |-> r.outcome, at |-> "render"]
               /\ drPc' = IF r.outcome = "-" THEN "loop" ELSE "done"
    /\ UNCHANGED <<drMode, drFiles, drExpired, dsPc, dsAlt, dsRestored, dsCursor, exceptDirect>>

\* direct(), after its loop: the buffered lines of Delayed mode are written,
\* and RenderComplete returned.
DrComplete ==
    /\ drPc = "loop"
    /\ drRemaining = 0
    /\ drTerm' = IF Delayed(drMode)
                 THEN [out |-> drTerm.out + drState.lines, err |-> drState.err,
                       renders |-> Min(drTerm.renders + 1, MaxRenders)]
                 ELSE drTerm
    /\ drOutcome' = [is |-> "RenderComplete", at |-> "end"]
    /\ drPc' = "done"
    /\ UNCHANGED <<drMode, drFiles, drFile, drRows, drExpired, drLastRead, drLoaded,
                   drRemaining, drState, dsPc, dsAlt, dsRestored, dsCursor, exceptDirect>>

\* A faulty start: no exit runs the guard.
RestoresNever(from) == FALSE

\* display::start: the exit guard exists from its creation after the match
\* on the outcome of direct() to the return of start.
Restores(from) == from = "fullscreen"

\* display::start, the match on the outcome of direct(), the creation of the
\* exit guard and the first render of the screen, which hides the cursor.
DsStart ==
    /\ drPc = "done"
    /\ dsPc = "direct"
    /\ dsPc' = IF EntersFullScreen(drOutcome.is) THEN "fullscreen" ELSE "exited"
    /\ dsAlt' = EntersAlternateScreen(drOutcome.is)
    /\ dsCursor' = IF EntersFullScreen(drOutcome.is) THEN "Hidden" ELSE dsCursor
    /\ dsRestored' = Restores(dsPc)
    /\ UNCHANGED <<drMode, drFiles, drFile, drRows, drExpired, drPc, drLastRead, drLoaded,
                   drRemaining, drState, drTerm, drOutcome, exceptDirect>>

\* The terminal fails inside direct(), or when start enters the alternate
\* screen: start returns the error.
DsErrorEarly ==
    /\ dsPc = "direct"
    /\ \/ drPc = "loop" /\ drPc' = "failed"
       \/ drPc = "done" /\ drOutcome.is = "RenderNothing" /\ drPc' = drPc
    /\ dsPc' = "error_early"
    /\ dsRestored' = Restores(dsPc)
    /\ UNCHANGED <<drMode, drFiles, drFile, drRows, drExpired, drLastRead, drLoaded,
                   drRemaining, drState, drTerm, drOutcome, dsAlt, dsCursor, exceptDirect>>

\* The full-screen loop of start returns: Ok for Action::Quit, or the error
\* of a render or of the terminal.  The guard is dropped.
DsReturn(how) ==
    /\ dsPc = "fullscreen"
    /\ dsPc' = how
    /\ dsRestored' = Restores(dsPc)
    /\ dsCursor' = IF Restores(dsPc) THEN "Default" ELSE dsCursor
    /\ UNCHANGED <<drMode, drFiles, drFile, drRows, drExpired, drPc, drLastRead, drLoaded,
                   drRemaining, drState, drTerm, drOutcome, dsAlt, exceptDirect>>

DirectNext ==
    \/ \E f \in DirectFiles : DrFileAppend(f)
    \/ \E f \in DirectFiles : DrFileLoaded(f)
    \/ DrDeadline
    \/ DrStart
    \/ \E event \in [kind : {"Loaded", "other", "None", "q", "f", "Resized"},
                      file : DirectFiles \cup {"-"}],
          rows \in 1..MaxRows, progress_lines \in 0..MaxProgress :
          DrLoop(event, rows, progress_lines)
    \/ DrComplete
    \/ DsStart
    \/ DsErrorEarly
    \/ \E how \in {"quit", "error_loop"} : DsReturn(how)

(***************************************************************************)
(* command.rs: the closures of the go-to-line and search prompts, and the  *)
(* Cancel key of Screen::dispatch_key.  A value is the sequence of the     *)
(* characters submitted.                                                   *)
(***************************************************************************)
Chars == {"-", "0", "1", "3", "%", "q", "("}

RECURSIVE ValuesUpTo(_)
ValuesUpTo(n) ==
    IF n = 0 THEN {<<>>}
    ELSE ValuesUpTo(n - 1)
             \cup {Append(v, c) : v \in {w \in ValuesUpTo(n - 1) : Len(w) = n - 1},
                                  c \in Chars}

\* char::to_digit(10), -1 for None.
ToDigit(c) ==
    CASE c = "0" -> 0 [] c = "1" -> 1 [] c = "2" -> 2 [] c = "3" -> 3 [] c = "4" -> 4
      [] c = "5" -> 5 [] c = "6" -> 6 [] c = "7" -> 7 [] c = "8" -> 8 [] c = "9" -> 9
      [] OTHER -> -1

\* The digits of str::parse::<isize>, -1 for a character that is no digit.
RECURSIVE ParseDigits(_, _)
ParseDigits(digits, result) ==
    IF digits = <<>> THEN result
    ELSE IF ToDigit(Head(digits)) = -1 THEN -1
    ELSE ParseDigits(Tail(digits), result * 10 + ToDigit(Head(digits)))

\* str::parse::<isize>: an optional sign and at least one digit.
ParseIsize(value) ==
    LET digits == IF value # <<>> /\ Head(value) \in {"-", "+"} THEN Tail(value) ELSE value
        result == ParseDigits(digits, 0)
    IN IF digits = <<>> THEN [ok |-> FALSE, val |-> 0, err |-> "cannot parse integer from empty string"]
       ELSE IF result = -1 THEN [ok |-> FALSE, val |-> 0, err |-> "invalid digit found in string"]
       ELSE [ok |-> TRUE, val |-> IF Head(value) = "-" THEN -result ELSE result, err |-> ""]

\* The division of isize, which rounds towards zero.
IsizeDiv(a, b) == IF a >= 0 THEN a \div b ELSE -((-a) \div b)

\* value as usize, for a usize of UsizeBits bits.
AsUsize(value) == value % (2 ^ UsizeBits)

\* goto, a percentage: the line given to scroll_to, before the cast.
GotoPercent(value_percent, lines) ==
    LET percent == IF value_percent <= -100 THEN 0
                   ELSE IF value_percent > 100 THEN 100
                   ELSE IF value_percent < 0 THEN 100 + value_percent
                   ELSE value_percent
    IN IsizeDiv(percent * (lines - 1), 100)

\* goto, a line number: the line given to scroll_to, before the cast.
GotoAbsolute(value, lines) ==
    IF value < -lines \/ value = 0 THEN 0
    ELSE IF value > lines THEN lines - 1
    ELSE IF value < 0 THEN lines + value - 1
    ELSE value - 1

\* The closure of goto(): the action it returns, the argument of scroll_to
\* (-1 if it is not called) and the error it stores ("None" if it stores
\* none).
Goto(value, lines) ==
    IF value = <<"q">> THEN [action |-> "Quit", scroll_to |-> -1, error |-> "None"]
    ELSE IF value = <<>> THEN [action |-> "Render", scroll_to |-> -1, error |-> "None"]
    ELSE LET percentage == value[Len(value)] = "%"
             parsed == ParseIsize(IF percentage THEN SubSeq(value, 1, Len(value) - 1)
                                  ELSE value)
         IN IF parsed.ok
            THEN [action |-> "Render",
                  scroll_to |-> AsUsize(IF percentage THEN GotoPercent(parsed.val, lines)
                                        ELSE GotoAbsolute(parsed.val, lines)),
                  error |-> "None"]
            ELSE [action |-> "Render", scroll_to |-> -1, error |-> parsed.err]

\* Search::new, as far as its result goes: Err for a pattern that is not a
\* regular expression.
SearchNew(value) ==
    IF \E i \in 1..Len(value) : value[i] = "(" THEN "Err" ELSE "Ok"

commandNone ==
    /\ cmLines = 0
    /\ cmError = "None"
    /\ cmSearch = "None"
    /\ cmAbs = -1
    /\ cmLast = [cmd |-> "-", value |-> <<>>]
    /\ cmLeft = 0

\* The go-to-line prompt is submitted.  After Quit no command is run.
CmGoto(value) ==
    /\ cmLeft > 0
    /\ LET r == Goto(value, cmLines)
       IN /\ cmAbs' = IF r.scroll_to # -1 THEN r.scroll_to ELSE cmAbs
          /\ cmError' = IF r.error # "None" THEN r.error ELSE cmError
          /\ cmLeft' = IF r.action = "Quit" THEN 0 ELSE cmLeft - 1
    /\ cmLast' = [cmd |-> "goto", value |-> value]
    /\ UNCHANGED <<cmLines, cmSearch, exceptCommand>>

\* The search prompt is submitted.  With an empty value the view moves to
\* a match of the search there is, if it has one.
CmSearch(value, line) ==
    /\ cmLeft > 0
    /\ line \in -1..cmLines - 1
    /\ IF value = <<>>
       THEN /\ line # -1 => cmSearch = "Some"
            /\ cmAbs' = IF line # -1 THEN line ELSE cmAbs
            /\ UNCHANGED cmSearch
       ELSE /\ line = -1
            /\ cmSearch' = IF SearchNew(value) = "Ok" THEN "Some" ELSE "None"
            /\ UNCHANGED cmAbs
    /\ cmLast' = [cmd |-> "search", value |-> value]
    /\ cmLeft' = cmLeft - 1
    /\ UNCHANGED <<cmLines, cmError, exceptCommand>>

\* Screen::dispatch_key, Cancel
CmCancel ==
    /\ cmLeft > 0
    /\ cmSearch' = "None"
    /\ cmError' = "None"
    /\ cmLast' = [cmd |-> "cancel", value |-> <<>>]
    /\ cmLeft' = cmLeft - 1
    /\ UNCHANGED <<cmLines, cmAbs, exceptCommand>>

\* Screen::render takes the pending scroll.
CmRender ==
    /\ cmLeft > 0
    /\ cmAbs # -1
    /\ cmAbs' = -1
    /\ cmLast' = [cmd |-> "render", value |-> <<>>]
    /\ cmLeft' = cmLeft - 1
    /\ UNCHANGED <<cmLines, cmError, cmSearch, exceptCommand>>

CommandNext ==
    \/ \E value \in ValuesUpTo(MaxValueLen) : CmGoto(value)
    \/ \E value \in ValuesUpTo(MaxValueLen), line \in -1..MaxCmdLines - 1 :
           CmSearch(value, line)
    \/ CmCancel
    \/ CmRender

(***************************************************************************)
(* line.rs: parse_spans.  A byte is its number; a span is its kind and the *)
(* bytes of the data it was made of.  The operators follow the code for    *)
(* data of the bytes LineBytes: characters of one or two bytes, the        *)
(* control characters ESC, CR and LF, the combining marks U+0300..U+033F   *)
(* (0xCC and a continuation byte), and the escape sequence ESC [ m.        *)
(***************************************************************************)
ESC == 27

LineBytes == {ESC, 91, 109, 13, 10, 204, 129}

RECURSIVE DataUpTo(_)
DataUpTo(n) ==
    IF n = 0 THEN {<<>>}
    ELSE DataUpTo(n - 1)
             \cup {Append(v, b) : v \in {w \in DataUpTo(n - 1) : Len(w) = n - 1},
                                  b \in LineBytes}

\* The bytes of the character that starts at index, as str::from_utf8 sees
\* it: its length, 0 for a byte that starts no character or a character
\* that is cut by a wrong byte, -1 for a character that is cut by the end
\* of the input.
Utf8Len(input, index) ==
    LET byte == input[index]
    IN IF byte < 128 THEN 1
       ELSE IF byte \in 194..223
       THEN IF index = Len(input) THEN -1
            ELSE IF input[index + 1] \in 128..191 THEN 2 ELSE 0
       ELSE 0

\* Utf8Error::valid_up_to, for the input from index on: the number of
\* bytes before index and of the valid characters from it.
RECURSIVE ValidUpTo(_, _)
ValidUpTo(input, index) ==
    IF index > Len(input) \/ Utf8Len(input, index) < 1 THEN index - 1
    ELSE ValidUpTo(input, index + Utf8Len(input, index))

\* ch < b' ' || ch == b'\x7F'
IsControl(byte) == byte < 32 \/ byte = 127

\* The character at index is a combining mark (Grapheme_Extend).
IsExtend(data, index) == index < Len(data) /\ data[index] = 204

\* The end of the marks that extend a cluster, from index on.
RECURSIVE ExtendUpTo(_, _)
ExtendUpTo(data, index) ==
    IF IsExtend(data, index) THEN ExtendUpTo(data, index + 2) ELSE index

\* str::grapheme_indices(true) on valid data: the length in bytes of the
\* extended grapheme cluster that starts at index.  CR LF is one cluster,
\* a control character is a cluster of its own, and a mark extends the
\* character before it.
GraphemeLen(data, index) ==
    IF data[index] = 13 /\ index < Len(data) /\ data[index + 1] = 10 THEN 2
    ELSE IF IsControl(data[index]) THEN 1
    ELSE ExtendUpTo(data, index + Utf8Len(data, index)) - index

\* UnicodeWidthStr::width of a cluster: a mark has no width.
GraphemeWidth(grapheme) == IF grapheme[1] = 204 THEN 0 ELSE 1

\* Parser::parse_first_as_vec on the bytes from index on, as far as the
\* match of parse_unicode_span tells its results apart: the length of an
\* SGR sequence, 0 for anything else.
ParseFirstAsVec(bytes, index) ==
    IF /\ index + 2 <= Len(bytes)
       /\ bytes[index] = ESC /\ bytes[index + 1] = 91 /\ bytes[index + 2] = 109
    THEN 3 ELSE 0

\* A span.
Span(kind, bytes) == [kind |-> kind, bytes |-> bytes]

\* The text from text_start up to index is pushed, if there is one.
PushText(data, spans, text_start, index) ==
    IF text_start # 0
    THEN Append(spans, Span("Text", SubSeq(data, text_start, index - 1)))
    ELSE spans

\* parse_unicode_span: the loop over the clusters from index on and the
\* text after it.  text_start and skip_to are 0 for None.
RECURSIVE ParseUnicodeSpan(_, _, _, _, _)
ParseUnicodeSpan(data, index, text_start, skip_to, spans) ==
    IF index > Len(data) THEN PushText(data, spans, text_start, Len(data) + 1)
    ELSE LET next == index + GraphemeLen(data, index)
             grapheme == SubSeq(data, index, next - 1)
             len == IF grapheme = <<ESC>> THEN ParseFirstAsVec(data, index) ELSE 0
             span == IF grapheme = <<13, 10>> THEN Span("CRLF", grapheme)
                     ELSE IF grapheme = <<10>> THEN Span("LF", grapheme)
                     ELSE IF grapheme = <<9>> THEN Span("TAB", grapheme)
                     ELSE IF len > 0
                     THEN Span("SgrSequence", SubSeq(data, index, index + len - 1))
                     ELSE IF Len(grapheme) = 1 /\ IsControl(grapheme[1])
                     THEN Span("Control", grapheme)
                     ELSE IF GraphemeWidth(grapheme) = 0
                     THEN Span("Unprintable", grapheme)
                     ELSE Span("None", <<>>)
             skip == IF grapheme = <<13, 10>> THEN index + 2
                     ELSE IF len > 0 THEN index + len
                     ELSE 0
         IN IF skip_to # 0 /\ index < skip_to
            THEN ParseUnicodeSpan(data, next, text_start, skip_to, spans)
            ELSE IF span.kind # "None"
            THEN ParseUnicodeSpan(data, next, 0, skip,
                                  Append(PushText(data, spans, text_start, index), span))
            ELSE ParseUnicodeSpan(data, next, IF text_start = 0 THEN index ELSE text_start,
                                  0, spans)

\* One Invalid span for each byte.
RECURSIVE InvalidSpans(_, _)
InvalidSpans(bytes, spans) ==
    IF bytes = <<>> THEN spans
    ELSE InvalidSpans(Tail(bytes), Append(spans, Span("Invalid", <<Head(bytes)>>)))

\* parse_spans: the loop over the input that is left.
RECURSIVE ParseSpansLoop(_, _)
ParseSpansLoop(input, spans) ==
    LET valid_up_to == ValidUpTo(input, 1)
        valid == SubSeq(input, 1, valid_up_to)
        after_valid == SubSeq(input, valid_up_to + 1, Len(input))
        parsed == IF valid # <<>> THEN ParseUnicodeSpan(valid, 1, 0, 0, spans) ELSE spans
    IN IF valid_up_to = Len(input) THEN ParseUnicodeSpan(input, 1, 0, 0, spans)
       ELSE IF Utf8Len(input, valid_up_to + 1) = -1
       THEN InvalidSpans(after_valid, parsed)
       ELSE ParseSpansLoop(Tail(after_valid),
                           InvalidSpans(<<Head(after_valid)>>, parsed))

ParseSpans(data) == ParseSpansLoop(data, <<>>)

lineNone ==
    /\ lnData = <<>>
    /\ lnSpans = <<>>
    /\ lnPc = "data"

\* Line::new calls parse_spans on the data of a line.
LnParse ==
    /\ lnPc = "data"
    /\ lnSpans' = ParseSpans(lnData)
    /\ lnPc' = "parsed"
    /\ UNCHANGED <<lnData, exceptLine>>

LineNext == LnParse

(***************************************************************************)
(* screen.rs: Screen::render, the scrolling of the region of the screen    *)
(* that had and still has file lines.                                      *)
(***************************************************************************)
\* What a render can have come to at that point.  all is pending_refresh
\* == Refresh::All; rendered_view is self.rendered.height -
\* self.rendered.overlay_height; a scroll that was not made has no distance.
PlanInputs ==
    {i \in [all : BOOLEAN,
            file_view_height : 0..MaxPlanHeight,
            rendered_view : 0..MaxPlanHeight,
            scroll_direction : {"None", "Up", "Down"},
            scroll_distance : 0..MaxPlanHeight + 1,
            caps : [scroll_up : BOOLEAN, scroll_down : BOOLEAN]] :
        i.scroll_direction = "None" => i.scroll_distance = 0}

\* A faulty plan: the capabilities of the terminal are not looked at.
PlanWithoutCaps(in) ==
    LET scroll_start == 0
        scroll_end == Min(in.file_view_height, in.rendered_view)
        region == [first_row |-> scroll_start, region_size |-> scroll_end - scroll_start,
                   scroll_count |-> in.scroll_distance]
        rest == IF in.file_view_height > scroll_end
                THEN <<<<"add_range", scroll_end, in.file_view_height>>>> ELSE <<>>
    IN IF in.all THEN [changes |-> <<>>, calls |-> <<>>]
       ELSE IF in.scroll_direction = "None" THEN [changes |-> <<>>, calls |-> rest]
       ELSE IF in.scroll_distance > scroll_end - scroll_start
       THEN [changes |-> <<>>,
             calls |-> <<<<"add_range", scroll_start, scroll_end>>>> \o rest]
       ELSE IF in.scroll_direction = "Up"
       THEN [changes |-> <<[change |-> "ScrollRegionDown"] @@ region>>,
             calls |-> <<<<"rotate_range_down", scroll_start, scroll_end,
                           in.scroll_distance, TRUE>>>> \o rest]
       ELSE [changes |-> <<[change |-> "ScrollRegionUp"] @@ region>>,
             calls |-> <<<<"rotate_range_up", scroll_start, scroll_end,
                           in.scroll_distance, TRUE>>>> \o rest]

\* The planning: the changes pushed, and the calls on pending_refresh with
\* their arguments.
Plan(in) ==
    LET scroll_start == 0
        scroll_end == Min(in.file_view_height, in.rendered_view)
        region == [first_row |-> scroll_start, region_size |-> scroll_end - scroll_start,
                   scroll_count |-> in.scroll_distance]
        rest == IF in.file_view_height > scroll_end
                THEN <<<<"add_range", scroll_end, in.file_view_height>>>> ELSE <<>>
    IN IF in.all THEN [changes |-> <<>>, calls |-> <<>>]
       ELSE IF in.scroll_direction = "None" THEN [changes |-> <<>>, calls |-> rest]
       ELSE IF in.scroll_distance > scroll_end - scroll_start
       THEN [changes |-> <<>>,
             calls |-> <<<<"add_range", scroll_start, scroll_end>>>> \o rest]
       ELSE IF in.scroll_direction = "Up" /\ in.caps.scroll_up
       THEN [changes |-> <<[change |-> "ScrollRegionDown"] @@ region>>,
             calls |-> <<<<"rotate_range_down", scroll_start, scroll_end,
                           in.scroll_distance, TRUE>>>> \o rest]
       ELSE IF in.scroll_direction = "Down" /\ in.caps.scroll_down
       THEN [changes |-> <<[change |-> "ScrollRegionUp"] @@ region>>,
             calls |-> <<<<"rotate_range_up", scroll_start, scroll_end,
                           in.scroll_distance, TRUE>>>> \o rest]
       ELSE IF in.scroll_distance > 0
       THEN [changes |-> <<>>,
             calls |-> <<<<"add_range", scroll_start, scroll_end>>>> \o rest]
       ELSE [changes |-> <<>>, calls |-> rest]

planNone ==
    /\ plIn = [all |-> TRUE, file_view_height |-> 0, rendered_view |-> 0,
               scroll_direction |-> "None", scroll_distance |-> 0,
               caps |-> [scroll_up |-> FALSE, scroll_down |-> FALSE]]
    /\ plOut = [changes |-> <<>>, calls |-> <<>>]
    /\ plPc = "scrolled"

\* Screen::render goes on from the scroll to the planning.
PlRender ==
    /\ plPc = "scrolled"
    /\ plOut' = Plan(plIn)
    /\ plPc' = "planned"
    /\ UNCHANGED <<plIn, exceptPlan>>

PlanNext == PlRender


(***************************************************************************)
(* screen.rs: Screen::render, the placing of the overlay.  The rows of the *)
(* screen are numbered from 0; row_contents is a sequence, row 0 first.    *)
(***************************************************************************)
\* .take(8): the most rows of the error file that are shown.
ErrorFileRows == 8

\* What a render finds: the height of the screen, the lines of the
\* progress, the rows the lines of the error file take, and whether there
\* is a search, a prompt and an error.
OverlayInputs ==
    [height : 0..MaxOverlayHeight,
     progress : 0..MaxProgressLines,
     error_file : 0..ErrorFileRows + 1,
     search : BOOLEAN, prompt : BOOLEAN, error : BOOLEAN]

AsNumber(b) == IF b THEN 1 ELSE 0

\* render.overlay_height as first computed: the height of the whole stack.
StackHeight(in) ==
    in.progress + Min(in.error_file, ErrorFileRows) + 1
        + AsNumber(in.search) + AsNumber(in.prompt) + AsNumber(in.error)

\* The contents of the rows when the overlay is placed in full.
FullRows(in) ==
    LET error_file_height == Min(in.error_file, ErrorFileRows)
        progress_row == in.height - in.progress
        error_file_row == progress_row - error_file_height
        ruler_row == error_file_row - 1
        search_row == IF in.search THEN ruler_row - 1 ELSE ruler_row
        prompt_row == IF in.prompt THEN search_row - 1 ELSE search_row
        error_row == IF in.error THEN prompt_row - 1 ELSE prompt_row
    IN [i \in 1..in.height |->
          LET row == i - 1
          IN IF row >= progress_row THEN "ProgressLine"
             ELSE IF row >= error_file_row THEN "ErrorFileLinePortion"
             ELSE IF row = ruler_row THEN "Ruler"
             ELSE IF in.search /\ row = search_row THEN "Search"
             ELSE IF in.prompt /\ row = prompt_row THEN "Prompt"
             ELSE IF in.error /\ row = error_row THEN "Error"
             ELSE "Empty"]

\* The contents of the rows when only the prompt is shown.
PromptRows(in) ==
    [i \in 1..in.height |->
        IF in.prompt /\ i - 1 = SaturatingSub(in.height, 1) THEN "Prompt" ELSE "Empty"]

\* A faulty placing: the stack is shown in full when it is as high as the
\* screen.
OverlayShownIfNotHigher(in) ==
    IF StackHeight(in) <= in.height
    THEN [overlay_height |-> StackHeight(in), rows |-> FullRows(in), panicked |-> FALSE]
    ELSE IF in.prompt /\ in.height = 0
    THEN [overlay_height |-> 1, rows |-> <<>>, panicked |-> TRUE]
    ELSE [overlay_height |-> AsNumber(in.prompt), rows |-> PromptRows(in),
          panicked |-> FALSE]

\* The placing of the overlay: render.overlay_height and row_contents after
\* it.  On a screen without rows the row of the prompt is row 0, which
\* row_contents does not have: the index panics.
Overlay(in) ==
    IF StackHeight(in) < in.height
    THEN [overlay_height |-> StackHeight(in), rows |-> FullRows(in), panicked |-> FALSE]
    ELSE IF in.prompt /\ in.height = 0
    THEN [overlay_height |-> 1, rows |-> <<>>, panicked |-> TRUE]
    ELSE [overlay_height |-> AsNumber(in.prompt), rows |-> PromptRows(in),
          panicked |-> FALSE]

overlayNone ==
    /\ ovIn = [height |-> 0, progress |-> 0, error_file |-> 0, search |-> FALSE,
               prompt |-> FALSE, error |-> FALSE]
    /\ ovOut = [overlay_height |-> 0, rows |-> <<>>, panicked |-> FALSE]
    /\ ovPc = "set_up"

\* Screen::render, from its beginning to the placing of the overlay.
OvRender ==
    /\ ovPc = "set_up"
    /\ ovOut' = Overlay(ovIn)
    /\ ovPc' = "placed"
    /\ UNCHANGED <<ovIn, exceptOverlay>>

OverlayNext == OvRender


(***************************************************************************)
(* screen.rs: Screen::render as a whole, and the handlers of the display   *)
(* loop that come before it.  The screen shows a file whose lines are one  *)
(* row high, on a terminal without the scroll capabilities                 *)
(* (caps.scroll_up and caps.scroll_down are false), with no error file.    *)
(* The terminal is the content of each of its rows.                        *)
(***************************************************************************)
\* RenderState::default, with None as -1.
RenderStateDefault ==
    [height |-> 0, overlay_height |-> 0, progress_height |-> 0, file_lines |-> 0,
     top_line |-> 0, bottom_line |-> 0, ruler_row |-> -1, prompt_row |-> -1,
     error_row |-> -1]

\* The row of the overlay with the content, -1 for None.
OverlayRow(rows, content) ==
    IF \E i \in 1..Len(rows) : rows[i] = content
    THEN (CHOOSE i \in 1..Len(rows) : rows[i] = content) - 1
    ELSE -1

\* RenderState::file_line_rows of the render that shows the lines from top
\* up to bottom in a file view of view rows: <<>> is None.
FileLineRowsOf(top, bottom, view, file_line_index) ==
    IF file_line_index >= top /\ file_line_index < bottom
    THEN <<Min(file_line_index - top, view), Min(file_line_index - top + 1, view)>>
    ELSE <<>>

\* pending_refresh.add_range(start, end) if let Some((start, end))
AddRows(refresh, rows) == IF rows = <<>> THEN refresh ELSE AddRange(refresh, rows[1], rows[2])

\* for file_line in start_line..end_line: the rows of each are added.
RECURSIVE AddFileLines(_, _, _, _, _, _)
AddFileLines(refresh, top, bottom, view, file_line, end_line) ==
    IF file_line >= end_line THEN refresh
    ELSE AddFileLines(AddRows(refresh, FileLineRowsOf(top, bottom, view, file_line)),
                      top, bottom, view, file_line + 1, end_line)

\* if the condition holds { pending_refresh.add_range(start, end) }
AddRangeIf(condition, refresh, start, end) ==
    IF condition THEN AddRange(refresh, start, end) ELSE refresh

\* if the condition holds { for file_line in start_line..end_line { ... } }
AddFileLinesIf(condition, refresh, top, bottom, view, start_line, end_line) ==
    IF condition THEN AddFileLines(refresh, top, bottom, view, start_line, end_line)
    ELSE refresh

\* Screen::render, its last part: the content of each row (row_contents), and
\* the rows of the pending refresh drawn on the terminal.
PaintRows(sc, term, ov, progress_height, top, bottom, pending_refresh) ==
    LET file_view_height == sc.height - ov.overlay_height
        bottom_row == sc.height - progress_height
        content(row) ==
            IF row < file_view_height
            THEN IF top + row < sc.file_lines
                 THEN [kind |-> "FileLinePortion", a |-> top + row, b |-> 0]
                 ELSE [kind |-> "Blank", a |-> 0, b |-> 0]
            ELSE IF ov.rows[row + 1] = "Ruler"
                 THEN [kind |-> "Ruler", a |-> top, b |-> bottom]
                 ELSE IF ov.rows[row + 1] = "ProgressLine"
                      THEN [kind |-> "ProgressLine", a |-> row - bottom_row, b |-> 0]
                      ELSE [kind |-> ov.rows[row + 1], a |-> 0, b |-> 0]
    IN [i \in 1..sc.height |->
           IF Dirty(pending_refresh, i - 1) /\ content(i - 1).kind # "Empty"
           THEN content(i - 1)
           ELSE IF i <= Len(term) THEN term[i]
                ELSE [kind |-> "Empty", a |-> 0, b |-> 0]]

\* Screen::render, its middle part: what has to be refreshed of a view that
\* shows the lines from top up to bottom under the overlay ov.
PaintRefresh(sc, rendered, term, ov, progress_height, top, bottom) ==
    LET ruler_row == OverlayRow(ov.rows, "Ruler")
        prompt_row == OverlayRow(ov.rows, "Prompt")
        error_row == OverlayRow(ov.rows, "Error")
        file_view_height == sc.height - ov.overlay_height
        scroll_distance == IF top > sc.top THEN top - sc.top ELSE sc.top - top
        \* the region that had and still has file lines
        scroll_end == Min(file_view_height, rendered.height - rendered.overlay_height)
        scrolled == IF sc.pending = RefreshAll THEN sc.pending
                    ELSE AddRangeIf(file_view_height > scroll_end,
                                    AddRangeIf(scroll_distance > 0, sc.pending, 0, scroll_end),
                                    scroll_end, file_view_height)
        \* what else needs to be refreshed
        last == AddRows(scrolled,
                        IF ~sc.loaded
                        THEN FileLineRowsOf(top, bottom, file_view_height,
                                            SaturatingSub(rendered.file_lines, 1))
                        ELSE <<>>)
        grown == AddFileLinesIf(sc.file_lines > rendered.file_lines, last, top, bottom,
                                file_view_height, Max(rendered.file_lines, top),
                                Min(sc.file_lines, bottom))
        smaller == AddRangeIf(file_view_height > rendered.height - rendered.overlay_height,
                              grown, rendered.height - rendered.overlay_height,
                              file_view_height)
        bottom_row == sc.height - progress_height
        moved == AddRangeIf(rendered.progress_height # progress_height,
                            smaller, bottom_row, bottom_row)
        ruler == AddRangeIf(ruler_row # -1
                               /\ (rendered.ruler_row # ruler_row \/ top # rendered.top_line
                                   \/ bottom # rendered.bottom_line),
                            moved, ruler_row, ruler_row + 1)
        prompt == AddRangeIf(prompt_row # -1 /\ rendered.prompt_row # prompt_row,
                             ruler, prompt_row, prompt_row + 1)
        error == AddRangeIf(error_row # -1 /\ rendered.error_row # error_row,
                            prompt, error_row, error_row + 1)
        pending_refresh == IF sc.pending = RefreshAll THEN sc.pending ELSE error
    IN [screen |-> [sc EXCEPT !.top = top, !.rel = 0, !.pending = RefreshNone],
        rendered |-> [height |-> sc.height, overlay_height |-> ov.overlay_height,
                      progress_height |-> progress_height, file_lines |-> sc.file_lines,
                      top_line |-> top, bottom_line |-> bottom, ruler_row |-> ruler_row,
                      prompt_row |-> prompt_row, error_row |-> error_row],
        term |-> PaintRows(sc, term, ov, progress_height, top, bottom, pending_refresh)]

\* Screen::render: the view position, the rendered state and the terminal
\* after it.  Its first part places the overlay and applies the pending
\* relative scroll.
Paint(sc, rendered, term) ==
    LET heights == [i \in 1..sc.file_lines |-> 1]
        in == [height |-> sc.height, progress |-> sc.progress, error_file |-> 0,
               search |-> sc.search, prompt |-> sc.prompt, error |-> sc.error]
        ov == Overlay(in)
        full == StackHeight(in) < sc.height
        file_view_height == sc.height - ov.overlay_height
        end == EndTopLine(heights, sc.file_lines, file_view_height)
        top == IF sc.rel < 0 THEN ScrollUp(heights, <<sc.top, 0>>, -sc.rel)[1]
               ELSE IF sc.rel > 0
                    THEN ScrollDown(heights, <<sc.top, 0>>, sc.rel,
                                    MaxTopLine(heights, FALSE, end))[1]
                    ELSE sc.top
    IN PaintRefresh(sc, rendered, term, ov, IF full THEN sc.progress ELSE 0, top,
                    BottomLine(heights, <<top, 0>>, file_view_height))

\* Screen::refresh_prompt
RefreshPrompt(refresh, rendered) ==
    IF rendered.prompt_row # -1
    THEN AddRange(refresh, rendered.prompt_row, rendered.prompt_row + 1)
    ELSE refresh

\* Screen::refresh_ruler
RefreshRuler(refresh, rendered) ==
    IF rendered.ruler_row # -1
    THEN AddRange(refresh, rendered.ruler_row, rendered.ruler_row + 1)
    ELSE refresh

\* Screen::refresh_progress
RefreshProgress(refresh, rendered, height) ==
    AddRange(refresh, SaturatingSub(rendered.height, rendered.progress_height), height)

\* The screens of the model before their first render.
PaintScreens ==
    [height : 1..MaxPaintHeight, file_lines : 0..MaxPaintLines, loaded : BOOLEAN,
     top : {0}, rel : {0}, progress : 0..MaxProgressLines, search : {FALSE},
     prompt : {FALSE}, error : {FALSE}, pending : {RefreshAll}]

paintNone ==
    /\ ptScreen = [height |-> 0, file_lines |-> 0, loaded |-> FALSE, top |-> 0, rel |-> 0,
                   progress |-> 0, search |-> FALSE, prompt |-> FALSE, error |-> FALSE,
                   pending |-> RefreshNone]
    /\ ptRendered = RenderStateDefault
    /\ ptTerm = <<>>
    /\ ptLeft = 0

\* term.render(&screen.render(&caps)?) on the screen the handler left.
PtRender(sc) ==
    /\ ptLeft > 0
    /\ LET r == Paint(sc, ptRendered, ptTerm)
       IN /\ ptScreen' = r.screen
          /\ ptRendered' = r.rendered
          /\ ptTerm' = r.term
    /\ ptLeft' = ptLeft - 1
    /\ UNCHANGED exceptPaint

\* A key that scrolls by lines: Screen::scroll_up or scroll_down, and the
\* render of Action::Render.
PtScroll(step) ==
    /\ ~ptScreen.prompt
    /\ PtRender([ptScreen EXCEPT !.rel = step])

\* A key that opens a prompt, and the render.
PtPromptOpen ==
    /\ ~ptScreen.prompt
    /\ PtRender([ptScreen EXCEPT !.prompt = TRUE])

\* Escape in the prompt: clear_prompt, and the render.
PtPromptCancel ==
    /\ ptScreen.prompt
    /\ PtRender([ptScreen EXCEPT !.prompt = FALSE,
                                 !.pending = RefreshPrompt(@, ptRendered)])

\* Enter in the search prompt: clear_prompt, set_search, and the render.
PtPromptSearch ==
    /\ ptScreen.prompt
    /\ PtRender([ptScreen EXCEPT !.prompt = FALSE, !.search = TRUE,
                                 !.pending = RefreshPrompt(@, ptRendered)])

\* Enter in the go-to-line prompt on a value that does not parse:
\* clear_prompt, screen.error, and the render.
PtPromptError ==
    /\ ptScreen.prompt
    /\ PtRender([ptScreen EXCEPT !.prompt = FALSE, !.error = TRUE,
                                 !.pending = RefreshPrompt(@, ptRendered)])

\* The Cancel key: the search and the error are dropped, refresh(), and the
\* render of Action::ClearOverlay.
PtCancel ==
    /\ ~ptScreen.prompt
    /\ PtRender([ptScreen EXCEPT !.search = FALSE, !.error = FALSE, !.pending = RefreshAll])

\* The progress has n lines now; Event::Progress: refresh_progress, and the
\* render.
PtProgress(n) ==
    /\ n # ptScreen.progress
    /\ PtRender([ptScreen EXCEPT !.progress = n,
                                 !.pending = RefreshProgress(@, ptRendered, ptScreen.height)])

\* The file has a line more; the animation timeout: refresh_ruler, and the
\* render.
PtFileGrows ==
    /\ ~ptScreen.loaded
    /\ ptScreen.file_lines < MaxPaintLines
    /\ PtRender([ptScreen EXCEPT !.file_lines = @ + 1,
                                 !.pending = RefreshRuler(@, ptRendered)])

\* Event::Loaded of the file: Action::Refresh, and the render.
PtLoaded ==
    /\ ~ptScreen.loaded
    /\ PtRender([ptScreen EXCEPT !.loaded = TRUE, !.pending = RefreshAll])

\* The terminal is resized: Screen::resize, and the render.
PtResize(height) ==
    /\ height # ptScreen.height
    /\ PtRender([ptScreen EXCEPT !.height = height, !.pending = RefreshAll])

PaintNext ==
    \/ \E step \in (-MaxScroll..MaxScroll) \ {0} : PtScroll(step)
    \/ PtPromptOpen
    \/ PtPromptCancel
    \/ PtPromptSearch
    \/ PtPromptError
    \/ PtCancel
    \/ \E n \in 0..MaxProgressLines : PtProgress(n)
    \/ PtFileGrows
    \/ PtLoaded
    \/ \E height \in 1..MaxPaintHeight : PtResize(height)

moreNone == commandNone /\ lineNone /\ planNone /\ overlayNone /\ paintNone

restNone == cacheNone /\ refreshNone /\ screenNone /\ directNone /\ moreNone

(***************************************************************************)
(* The event bus on its own: sender threads and the display loop.          *)
(***************************************************************************)
InitEvent ==
    /\ evInit
    /\ sndLeft = [s \in Senders |-> MaxSends]
    /\ ctlInit
    /\ ctlBatches = 0
    /\ fileNone
    /\ restNone

NextEvent ==
    /\ \/ \E s \in Senders : SendEnqueue(s)
       \/ \E s \in Senders : SendUniqueSwap(s)
       \/ \E s \in Senders : SendUniqueEnqueue(s)
       \/ \E s \in Senders : SendWake(s)
       \/ GetNext
    /\ UNCHANGED <<ctlVars, fileVars, restVars>>

SpecEvent == InitEvent /\ [][NextEvent]_vars

\* A step of the event bus alone.
EventStep(A) == A /\ UNCHANGED <<ctlVars, fileVars, restVars>>

(***************************************************************************)
(* The event bus with its scheduling.  The display loop calls get again    *)
(* after every return and each of its steps is taken when it can be: the   *)
(* try_recv, the flag reset of receive, the return of poll_input when a    *)
(* Wake is pending.  A sender thread that has begun a send goes on to the  *)
(* enqueue and to the wake.  Nothing makes poll_input return otherwise:    *)
(* the wait may be without timeout and the user may press no key.          *)
(***************************************************************************)
SpecEventLive ==
    /\ InitEvent
    /\ [][NextEvent]_vars
    /\ WF_vars(EventStep(GetTryRecv))
    /\ WF_vars(EventStep(GetReceive))
    /\ WF_vars(EventStep(GetPollWake))
    /\ WF_vars(EventStep(GetRecheck))
    /\ \A s \in Senders : WF_vars(EventStep(SendUniqueEnqueue(s)))
    /\ \A s \in Senders : WF_vars(EventStep(SendWake(s)))

(***************************************************************************)
(* The controlled file: a controller thread and a reader.  The events the  *)
(* controller sends stay in the queue.                                     *)
(***************************************************************************)
InitCtl ==
    /\ evInit
    /\ sndLeft = [s \in Senders |-> 0]
    /\ ctlInit
    /\ ctlBatches = MaxBatches
    /\ fileNone
    /\ restNone

NextCtl ==
    \/ CtlBegin
    \/ CtlApplyChange
    \/ CtlLockNotify
    \/ CtlNotify
    \/ CtlReturn
    \/ CtlReadLines
    \/ \E i \in CtlIndexes : CtlWithLine(i)

SpecCtl == InitCtl /\ [][NextCtl]_vars

(***************************************************************************)
(* One file of any kind with its loader thread, a reader thread, the       *)
(* callers of set_needed_lines and the display loop that takes the events. *)
(***************************************************************************)
InitFile ==
    /\ evInit
    /\ sndLeft = [s \in Senders |-> 0]
    /\ ctlInit
    /\ ctlBatches = 0
    /\ fKind \in {"streamed", "file", "mapped", "static"}
    /\ fileIdle
    /\ fData \in BytesUpTo(MaxLen)
    /\ errLeft = MaxErrors
    /\ fevLeft = IF fKind = "file" THEN MaxFileEvents ELSE 0
    /\ diskLeft = IF fKind = "file" THEN MaxDiskWrites ELSE 0
    /\ restNone

NextFile ==
    \/ StreamedNext
    \/ MappedNext
    \/ RandomFileNext
    \/ ReaderNext
    \/ CallerNext
    \/ GetDrain /\ UNCHANGED <<ctlVars, fileVars, restVars>>

SpecFile == InitFile /\ [][NextFile]_vars

(***************************************************************************)
(* A block cache over a file, the callers of with_slice, and a process     *)
(* that appends to the file or truncates it.                               *)
(***************************************************************************)
InitCache ==
    /\ evInit
    /\ sndLeft = [s \in Senders |-> 0]
    /\ ctlInit
    /\ ctlBatches = 0
    /\ fileNone
    /\ cacheIdle
    /\ bcDisk \in BytesUpTo(MaxCacheLen)
    /\ bcLeft = MaxCacheCalls
    /\ bcWrites = MaxCacheWrites
    /\ refreshNone
    /\ screenNone
    /\ directNone
    /\ moreNone

NextCache == CacheNext

SpecCache == InitCache /\ [][NextCache]_vars

(***************************************************************************)
(* The refresh descriptor on its own: any value over the rows of a screen, *)
(* and the calls the renderer makes on it.                                 *)
(***************************************************************************)
InitRefresh ==
    /\ evInit
    /\ sndLeft = [s \in Senders |-> 0]
    /\ ctlInit
    /\ ctlBatches = 0
    /\ fileNone
    /\ cacheNone
    /\ rf \in Refreshes
    /\ rfLog = <<>>
    /\ rfLeft = MaxRefreshOps
    /\ screenNone
    /\ directNone
    /\ moreNone

NextRefresh == RefreshNext

SpecRefresh == InitRefresh /\ [][NextRefresh]_vars

(***************************************************************************)
(* The scrolling of one screen: a loaded file of lines of any height, the  *)
(* scroll operations of the keys and prompts, and the renders.             *)
(***************************************************************************)
InitScreen ==
    /\ evInit
    /\ sndLeft = [s \in Senders |-> 0]
    /\ ctlInit
    /\ ctlBatches = 0
    /\ fileNone
    /\ cacheNone
    /\ refreshNone
    /\ screenIdle
    /\ scHeights \in HeightsUpTo(MaxFileLines) \ {<<>>}
    /\ scView \in 1..MaxViewHeight
    /\ scPastEof \in BOOLEAN
    /\ scLeft = MaxScreenOps
    /\ directNone
    /\ moreNone

NextScreen == ScreenNext

SpecScreen == InitScreen /\ [][NextScreen]_vars

(***************************************************************************)
(* Direct mode and the start of the display: the loader threads of the     *)
(* files, the deadline, direct() and the match of display::start on its    *)
(* outcome.                                                                *)
(***************************************************************************)
InitDirect ==
    /\ evInit
    /\ sndLeft = [s \in Senders |-> 0]
    /\ ctlInit
    /\ ctlBatches = 0
    /\ fileNone
    /\ cacheNone
    /\ refreshNone
    /\ screenNone
    /\ moreNone
    /\ directIdle
    /\ drMode \in {"FullScreen", "Direct", "Hybrid", "Delayed"}
    /\ drFiles \in {{}, {"out"}, {"out", "err"}, {"out", "more"}}
    /\ drFile = [f \in DirectFiles |-> NoFile]
    /\ drRows \in 1..MaxRows

NextDirect == DirectNext

SpecDirect == InitDirect /\ [][NextDirect]_vars

(***************************************************************************)
(* The prompts of one screen: a file of any number of lines, and the       *)
(* values the user submits.                                                *)
(***************************************************************************)
InitCommand ==
    /\ evInit
    /\ sndLeft = [s \in Senders |-> 0]
    /\ ctlInit
    /\ ctlBatches = 0
    /\ fileNone
    /\ cacheNone
    /\ refreshNone
    /\ screenNone
    /\ directNone
    /\ paintNone
    /\ overlayNone
    /\ lineNone
    /\ planNone
    /\ cmLines \in 0..MaxCmdLines
    /\ cmError = "None"
    /\ cmSearch = "None"
    /\ cmAbs = -1
    /\ cmLast = [cmd |-> "-", value |-> <<>>]
    /\ cmLeft = MaxCommands

NextCommand == CommandNext

SpecCommand == InitCommand /\ [][NextCommand]_vars

(***************************************************************************)
(* The parsing of one line: any data of the bytes of the model.            *)
(***************************************************************************)
InitLine ==
    /\ evInit
    /\ sndLeft = [s \in Senders |-> 0]
    /\ ctlInit
    /\ ctlBatches = 0
    /\ fileNone
    /\ cacheNone
    /\ refreshNone
    /\ screenNone
    /\ directNone
    /\ paintNone
    /\ overlayNone
    /\ commandNone
    /\ planNone
    /\ lnData \in DataUpTo(MaxLineLen)
    /\ lnSpans = <<>>
    /\ lnPc = "data"

NextLine == LineNext

SpecLine == InitLine /\ [][NextLine]_vars

(***************************************************************************)
(* The scroll region of one render, for every state the render can have    *)
(* come to.                                                                *)
(***************************************************************************)
InitPlan ==
    /\ evInit
    /\ sndLeft = [s \in Senders |-> 0]
    /\ ctlInit
    /\ ctlBatches = 0
    /\ fileNone
    /\ cacheNone
    /\ refreshNone
    /\ screenNone
    /\ directNone
    /\ paintNone
    /\ overlayNone
    /\ commandNone
    /\ lineNone
    /\ plIn \in PlanInputs
    /\ plOut = [changes |-> <<>>, calls |-> <<>>]
    /\ plPc = "scrolled"

NextPlan == PlanNext

SpecPlan == InitPlan /\ [][NextPlan]_vars


(***************************************************************************)
(* The overlay of one render, for every screen height and every stack.     *)
(***************************************************************************)
InitOverlay ==
    /\ evInit
    /\ sndLeft = [s \in Senders |-> 0]
    /\ ctlInit
    /\ ctlBatches = 0
    /\ fileNone
    /\ cacheNone
    /\ refreshNone
    /\ screenNone
    /\ directNone
    /\ paintNone
    /\ commandNone
    /\ lineNone
    /\ planNone
    /\ ovIn \in OverlayInputs
    /\ ovOut = [overlay_height |-> 0, rows |-> <<>>, panicked |-> FALSE]
    /\ ovPc = "set_up"

NextOverlay == OverlayNext

SpecOverlay == InitOverlay /\ [][NextOverlay]_vars


(***************************************************************************)
(* The renders of a screen: from its first render, which draws every row,  *)
(* through the events of the display loop.                                 *)
(***************************************************************************)
InitPaint ==
    /\ evInit
    /\ sndLeft = [s \in Senders |-> 0]
    /\ ctlInit
    /\ ctlBatches = 0
    /\ fileNone
    /\ cacheNone
    /\ refreshNone
    /\ screenNone
    /\ directNone
    /\ commandNone
    /\ lineNone
    /\ planNone
    /\ overlayNone
    /\ \E sc \in PaintScreens :
          LET r == Paint(sc, RenderStateDefault, <<>>)
          IN /\ ptScreen = r.screen
             /\ ptRendered = r.rendered
             /\ ptTerm = r.term
    /\ ptLeft = MaxPaintOps

NextPaint == PaintNext

SpecPaint == InitPaint /\ [][NextPaint]_vars

(***************************************************************************)
(* C1.  At most one envelope carrying a given UniqueInstance flag is in    *)
(* the event queue at any time, whatever the interleaving of the           *)
(* send_unique calls that share the flag and of the receiver; and a        *)
(* send_unique call that finds the flag set enqueues nothing and sends no  *)
(* wake.                                                                   *)
(***************************************************************************)
C1_ElidedCallDoesNothing ==
    \A s \in Senders :
        (sndPc[s] = "idle" /\ sndLast'[s] = "elided" /\ sndLeft'[s] < sndLeft[s])
            => (evQueue' = evQueue /\ evWakes' = evWakes /\ sndPc'[s] = "idle")

C1_AtMostOneInFlight ==
    /\ [](CountUnique(evQueue, "render") <= 1)
    /\ [][C1_ElidedCallDoesNothing]_vars

\* Two senders called send_unique on the flag; one envelope is queued and
\* the other call was elided.
C1_Witness ==
    /\ CountUnique(evQueue, "render") = 1
    /\ \E s, t \in Senders :
        /\ s # t
        /\ sndLast[s] = "sent" /\ sndPc[s] = "idle" /\ sndLeft[s] < MaxSends
        /\ sndLast[t] = "elided"

(***************************************************************************)
(* C2.  lines() does not decrease across a reload of a file on disk: a     *)
(* call of lines() that starts after the loader started the reload, and    *)
(* returns before finished is stored true again, returns at least what     *)
(* lines() returned before the reload.  The formula is about the last step *)
(* of the call: the value it returns when taken now.                       *)
(***************************************************************************)
C2_LinesNotBelowPreReload ==
    (fKind = "file" /\ rd.pc = "lines_count" /\ rd.win) => LinesReturned >= rlWin.base

(***************************************************************************)
(* C3.  In every state a concurrent reader can observe, newlines is        *)
(* strictly increasing and every element of newlines is less than length.  *)
(***************************************************************************)
C3_NewlinesBelowLength ==
    /\ \A i \in 1 .. Len(mNewlines) - 1 : mNewlines[i] < mNewlines[i + 1]
    /\ \A i \in 1 .. Len(mNewlines) : mNewlines[i] < mLength

(***************************************************************************)
(* C4.  For any i < lines(), with_line(i, f) returns Some, or i is         *)
(* lines() - 1 (the last line, empty or pending); in every loader state,   *)
(* the reload floor included.  This is the claim as it is stated, in its   *)
(* weakest reading: whatever the last line is, it is excused.              *)
(***************************************************************************)
C4_SomeOrLastLine ==
    \A i \in 0 .. LinesNow - 1 :
        WithLine(i, mNewlines, mLength).some \/ i = LinesNow - 1

\* lines() returns the reload floor, which is above the lines loaded.
FloorInEffect == ~mFinished /\ UnwrapOr0(mFloor) > LineCount(mNewlines, mLength)

(***************************************************************************)
(* C4, amended.  For any i < lines(), with_line(i, f) returns Some, or     *)
(* lines() returned the reload floor and i is at or above the number of    *)
(* lines loaded since the reload: while the floor is in effect every line  *)
(* from the loaded count up to the floor is None, not only the last one.   *)
(***************************************************************************)
C4_SomeOrAboveReloaded ==
    \A i \in 0 .. LinesNow - 1 :
        \/ WithLine(i, mNewlines, mLength).some
        \/ FloorInEffect /\ i >= LineCount(mNewlines, mLength)

\* A reload is under way with a floor of two lines and nothing loaded yet:
\* lines() is 2 and with_line(0) is None.
C4_Witness ==
    /\ fKind = "file"
    /\ FloorInEffect
    /\ LinesNow = 2
    /\ LineCount(mNewlines, mLength) = 0
    /\ ~WithLine(0, mNewlines, mLength).some

\* No caller of set_needed_lines is inside a call.
CallersIdle == \A c \in Callers : sn[c].pc = "idle"

(***************************************************************************)
(* C5.  set_needed_lines wakes a paused streamed loader, also when the     *)
(* call falls between the loader's evaluation of the backpressure          *)
(* predicate and its wait: no interleaving leaves the loader blocked on    *)
(* the condition variable, with no call in progress, while needed_lines    *)
(* exceeds its line count.                                                 *)
(***************************************************************************)
C5_NotLeftBlocked ==
    (fKind = "streamed" /\ ld.pc = "waiting" /\ CallersIdle) => ld.lineCount >= mNeeded

\* The loader is suspended at backpressure: blocked in Condvar::wait, or
\* woken and taking the mutex again.
Suspended == fKind = "streamed" /\ ld.pc \in {"waiting", "woken"}

\* The reader thread of a streamed file has not taken its first step.
NotStarted == fKind = "streamed" /\ ld.pc = "spawned"

(***************************************************************************)
(* C6.  For every file variant, paused() returns true iff the loader is    *)
(* suspended at backpressure; it is false while a loader reads or parses,  *)
(* and false for a loading file whose loader never applies backpressure.   *)
(* The states before the reader thread of a streamed file has locked       *)
(* waker_mutex are left out.                                               *)
(***************************************************************************)
C6_PausedIffSuspended ==
    ~NotStarted => (PausedFrom(mFinished, mWakerMutex) <=> Suspended)

\* The loader is past the store of finished = true of its current pass: a
\* streamed, mapped or static loader for good, the loader of a file on disk
\* until it starts the next pass.
PassEnded ==
    IF fKind = "file"
    THEN \/ ld.pc \in {"send_loaded", "clear_floor", "idle"}
         \/ ld.pc \in {"open", "decide", "unfinish", "panicked"} /\ ld.sendEvent
    ELSE ld.pc \in {"send", "done"}

\* A step that puts a Loaded event into the event queue.
LoadedSent ==
    /\ Len(evQueue') = Len(evQueue) + 1
    /\ evQueue'[Len(evQueue')].event = Loaded(FileIndex)

\* finished is stored true at the end of a pass only: the read loop has
\* ended on Ok(0), or the blocks are all parsed.
FinishedAtEndOfInput ==
    (~mFinished /\ mFinished') =>
        IF fKind = "file" THEN ld.pc = "post" /\ ~fAppending ELSE ld.pc = "eof"

\* finished is stored false by the loader of a file on disk only, when it
\* goes round for the next pass: on a reload, or to read what was appended.
UnfinishedOnRestart ==
    (mFinished /\ ~mFinished') => (fKind = "file" /\ ld.pc = "unfinish" /\ ld'.pc = "spawned")

C8_NoReadAfterError == fKind = "streamed" => ~errRead

(***************************************************************************)
(* C9.  Every change whose index or range is out of range for the current  *)
(* line vector makes apply_changes return LineOutOfRange {index, length},  *)
(* with length the number of lines at that point; the changes before it    *)
(* stay applied, the failing change and the later ones are not applied.    *)
(* The code returns the error for ReplaceLine only: Vec::insert,           *)
(* Vec::remove and Vec::splice panic instead.                              *)
(***************************************************************************)
C9_OutOfRangeIsAnError ==
    (ctlLastOp # <<>> /\ ctlLastOp[1].outOfRange)
        => /\ ctlResult.kind = "LineOutOfRange"
           /\ ctlResult.length = ctlLastOp[1].length
           /\ Len(ctlLines) = ctlLastOp[1].length
           /\ ctlLeft = 0
           /\ ctlPc = "idle"

(***************************************************************************)
(* C10.  apply_changes applies its list of changes atomically under the    *)
(* write lock: every lines() and with_line() call returns what it returns  *)
(* on the line vector as it was when the write lock was last released,     *)
(* never a state between two changes of a batch; and a Reloading event is  *)
(* sent only when no change of the batch is left to apply.                 *)
(***************************************************************************)
C10_EventsAfterAllChanges ==
    (evQueue' # evQueue) => (ctlLeft = 0 /\ ctlPc = "notify" /\ ctlLock = "write")

C10_BatchIsAtomic ==
    /\ [](ctlSeen.call # "none" => ctlSeen.value = ctlSeen.committed)
    /\ [][C10_EventsAfterAllChanges]_vars

\* A batch of at least two changes succeeded (its last change appended the
\* second line of the file), both subscribers were sent Reloading, and a
\* reader saw the two lines.
C10_Witness ==
    /\ ctlBatches = MaxBatches - 1
    /\ ctlResult.kind = "Ok"
    /\ ctlLastOp # <<>> /\ ctlLastOp[1].op = "AppendLine" /\ ctlLastOp[1].length = 1
    /\ Len(evQueue) = Len(CtlNotifyList)
    /\ ctlSeen.call = "lines" /\ ctlSeen.value = 2


(***************************************************************************)
(* C11.  For any start < end, BufferCache.with_slice(start, end, f) passes *)
(* f exactly end - start bytes: the bytes of the file at [start, end), and *)
(* a zero byte for every offset at or beyond the end of the file, whether  *)
(* the range lies in one block or spans several.  (The calls during which  *)
(* nothing fails.)                                                         *)
(***************************************************************************)
C11_CallPassesTheRange ==
    (bcLeft' < bcLeft /\ bcOut'.fault = "none")
        => /\ bcOut'.kind = "Ok"
           /\ bcOut'.data = Resize(ReadAt(bcDisk, bcOut'.start, bcOut'.end - bcOut'.start),
                                   bcOut'.end - bcOut'.start)

C11_ExactlyTheBytesOfTheRange == [][C11_CallPassesTheRange]_vars

(***************************************************************************)
(* C12.  A positioned read inside the block cache that fails, or returns   *)
(* zero bytes, is treated as absent data: with_slice returns a value, and  *)
(* no error reaches the caller of File::with_line, whose unwrap of the     *)
(* result would panic.                                                     *)
(***************************************************************************)
C12_FailedReadIsAbsentData ==
    bcOut.fault \in {"none", "seek_err", "read_err"} => bcOut.kind # "Err"

(***************************************************************************)
(* C13.  The events one source sent are returned by EventStream::get in    *)
(* the order of its send and send_unique calls: a send_unique call may be  *)
(* dropped, but the events that are delivered are never reordered, across  *)
(* the two kinds of envelope either.                                       *)
(***************************************************************************)
C13_DeliveredInSendOrder ==
    \A i, j \in 1..Len(getLog) :
        (i < j /\ getLog[i].from = getLog[j].from) => getLog[i].call < getLog[j].call

\* One sender's send and send_unique were both delivered, while an event of
\* another sender was delivered too.
C13_Witness ==
    \E i, j, k \in 1..Len(getLog) :
        /\ i < j
        /\ getLog[i].from = getLog[j].from
        /\ getLog[i].event # getLog[j].event
        /\ getLog[k].from # getLog[i].from

(***************************************************************************)
(* C14.  A call of get takes one envelope off the queue whenever the queue *)
(* is not empty at the call, and otherwise waits for terminal input; a     *)
(* Wake input that finds the queue empty sends get back to waiting without *)
(* returning, so that get returns None only when polling the input timed   *)
(* out.                                                                    *)
(***************************************************************************)
GetActed == getPc' # getPc \/ getLog' # getLog \/ getRet' # getRet

C14_GetStep ==
    GetActed =>
        /\ (getPc = "start" /\ evQueue # <<>>)
               => (evQueue' = Tail(evQueue) /\ getPc' \in {"start", "receive"})
        /\ (getPc = "start" /\ evQueue = <<>>)
               => (getPc' = "poll" /\ getRet' = getRet)
        /\ (getPc = "recheck" /\ evQueue = <<>>)
               => (getPc' = "poll" /\ getRet' = getRet /\ evQueue' = evQueue)
        /\ (getPc' = "start" /\ getRet' = "Timeout")
               => (getPc = "poll" /\ evWakes' = evWakes)

C14_NoneOnlyOnTimeout == [][C14_GetStep]_vars

\* A Wake input reached get after get had collected the event it was sent
\* for: the queue is empty at the second try_recv.
C14_Witness ==
    /\ getPc = "recheck"
    /\ evQueue = <<>>
    /\ getLog # <<>>

(***************************************************************************)
(* C15.  Rotating a refresh descriptor up by k and then down by k leaves   *)
(* the set of dirty rows as it was, for the rows that stay inside the      *)
(* rotated region, which are the rows from k on: such a row is dirty       *)
(* afterwards exactly if it was dirty before.                              *)
(***************************************************************************)
UpThenDown ==
    /\ Len(rfLog) = 2
    /\ rfLog[1].op = "rotate_range_up"
    /\ rfLog[2].op = "rotate_range_down"
    /\ rfLog[1].step = rfLog[2].step

C15_UpThenDownIsIdentity ==
    UpThenDown =>
        \A row \in rfLog[1].step .. (MaxRow + MaxStep) :
            Dirty(rf, row) <=> Dirty(rfLog[1].on, row)

\* A set of lines with a dirty row below k and one from k on was rotated up
\* and down by k.
C15_Witness ==
    /\ UpThenDown
    /\ rfLog[1].on.kind = "Lines"
    /\ \E low, high \in rfLog[1].on.b : low < rfLog[1].step /\ high >= rfLog[1].step
    /\ rf.kind = "Lines"

(***************************************************************************)
(* C16.  With scroll_past_eof disabled, after any render that follows any  *)
(* sequence of scroll operations (relative scrolls, scroll to a line,      *)
(* scroll to the top, following the end), the view position                *)
(* (top_line, top_line_portion) is not greater than the end anchor that    *)
(* render computed.                                                        *)
(***************************************************************************)
C16_NotBeyondEndAnchor ==
    (scRendered /\ ~scPastEof) => TupleLeq(scTop, scEnd)

(***************************************************************************)
(* C17.  Whenever direct() returns RenderComplete, every line of every     *)
(* output and error file it was given has been written to the terminal: in *)
(* Direct mode whatever the size of the content, in Hybrid and Delayed     *)
(* mode for content that fits the screen.                                  *)
(***************************************************************************)
C17_CompleteMeansAllWritten ==
    drOutcome.is = "RenderComplete"
        => /\ "out" \in drFiles => drTerm.out = FileLines(drFile["out"])
           /\ "err" \in drFiles => drTerm.err = FileLines(drFile["err"])

(***************************************************************************)
(* C18.  In Delayed mode direct() writes nothing to the terminal before    *)
(* its decision.  When the deadline has passed, or the height of the       *)
(* buffered lines reaches one screen, it returns RenderNothing and has     *)
(* written nothing; when the loop ends before that, it writes the buffered *)
(* lines, all of them and once, and returns RenderComplete.                *)
(***************************************************************************)
DirectActed ==
    <<drLastRead, drLoaded, drRemaining, drState, drTerm, drRows, drOutcome, drPc>>'
        # <<drLastRead, drLoaded, drRemaining, drState, drTerm, drRows, drOutcome, drPc>>

C18_NothingBeforeTheDecision ==
    drMode = "Delayed" =>
        /\ drOutcome.is \in {"-", "RenderNothing", "Interrupted"} => drTerm.renders = 0
        /\ drOutcome.is = "RenderComplete"
               => /\ drTerm = [out |-> drState.lines, err |-> drState.err, renders |-> 1]
                  /\ Height(drState) < drRows
        /\ drOutcome.is # "RenderIncomplete"

C18_DecisionOfAPass ==
    (drMode = "Delayed" /\ drPc = "loop" /\ DirectActed) =>
        /\ (drPc' = "loop") => (~drExpired /\ Height(drState') < drRows' /\ drRemaining > 0)
        /\ (drPc' = "done" /\ drRemaining > 0 /\ drOutcome'.at # "key")
               => /\ drOutcome'.is = "RenderNothing"
                  /\ drExpired \/ Height(drState') >= drRows'
        /\ (drPc' = "done" /\ drRemaining = 0) => drOutcome'.is = "RenderComplete"

C18_DelayedWritesOnceOrNever ==
    /\ []C18_NothingBeforeTheDecision
    /\ [][C18_DecisionOfAPass]_vars

\* Delayed mode: the output file ended with one line buffered, below the
\* height of the screen, and direct() wrote it and returned RenderComplete.
C18_Witness ==
    /\ drMode = "Delayed"
    /\ drOutcome.is = "RenderComplete"
    /\ drFile["out"].loaded
    /\ drTerm.out = 1
    /\ drTerm.renders = 1

C20_FullScreenIffNotRendered ==
    /\ dsPc = "direct" => ~dsAlt
    /\ dsPc \in {"fullscreen", "exited"} =>
           /\ dsPc = "fullscreen" <=> drOutcome.is \in {"RenderNothing", "RenderIncomplete"}
           /\ dsPc = "exited" <=> drOutcome.is \in {"RenderComplete", "Interrupted"}
           /\ dsAlt <=> drOutcome.is = "RenderNothing"

\* Hybrid mode ran out of screen: the full-screen loop runs on the main
\* screen.
C20_Witness ==
    /\ dsPc = "fullscreen"
    /\ drOutcome = [is |-> "RenderIncomplete", at |-> "render"]
    /\ ~dsAlt

(***************************************************************************)
(* C21 as stated.  On every return of display::start (direct mode          *)
(* complete or interrupted, Quit, an error of direct mode or of the        *)
(* full-screen loop) the terminal has been restored: default cursor shape, *)
(* default attributes, the whole screen scrolled, the cursor on the final  *)
(* row.                                                                    *)
(***************************************************************************)
Returned21 == dsPc \in {"exited", "quit", "error_early", "error_loop"}

C21_RestoredOnEveryExit == Returned21 => dsRestored

(***************************************************************************)
(* C21, amended.  The terminal is restored on the returns of the           *)
(* full-screen phase, Quit or an error inside the loop, and only on those: *)
(* a return before that phase (direct mode complete or interrupted, an     *)
(* error of direct mode or of entering the alternate screen) renders no    *)
(* restoring change, and there the cursor was never hidden.                *)
(***************************************************************************)
C21_RestoredAfterFullScreen ==
    /\ dsRestored <=> dsPc \in {"quit", "error_loop"}
    /\ Returned21 => dsCursor = "Default"

\* Quit after a full-screen phase on the alternate screen.
C21_Witness ==
    /\ dsPc = "quit"
    /\ dsAlt
    /\ dsRestored
    /\ dsCursor = "Default"

(***************************************************************************)
(* C22.  While following_end is set, every render leaves the view at the   *)
(* end anchor of the file as it is at that render: whatever lines have     *)
(* arrived and whatever keys were handled since the render before, the     *)
(* view position after the render is the maximum position that still fills *)
(* the file view, so that its bottom row shows the newest line.            *)
(***************************************************************************)
RenderStep == scLeft' < scLeft /\ scRendered'

GotoFails(value) == value \notin {<<>>, <<"q">>} /\ Goto(value, 0).scroll_to = -1

(***************************************************************************)
(* C24.  Every command error reaches the error banner: when a go-to-line   *)
(* value that does not parse or a search pattern that does not compile is  *)
(* submitted, screen.error is Some afterwards; and a banner that is set    *)
(* stays set until Cancel.                                                 *)
(***************************************************************************)
C24_CommandErrorsReachTheBanner ==
    [][/\ (cmLast'.cmd = "goto" /\ GotoFails(cmLast'.value)) => cmError' # "None"
       /\ (cmLast'.cmd = "search" /\ cmLast'.value # <<>>
              /\ SearchNew(cmLast'.value) = "Err") => cmError' # "None"
       /\ (cmError # "None" /\ cmLast'.cmd # "cancel") => cmError' # "None"]_vars

(***************************************************************************)
(* C25.  The line the go-to-line prompt gives to scroll_to is a line of    *)
(* the file: for every number or percentage that parses and every number   *)
(* of lines, it is in 0 .. max(lines, 1) - 1.                              *)
(***************************************************************************)
C25_GotoStaysInTheFile ==
    (cmLast.cmd = "goto" /\ cmAbs # -1) => cmAbs \in 0..(Max(cmLines, 1) - 1)

\* The bytes of the spans, in the order of the spans.
RECURSIVE SpanBytes(_)
SpanBytes(spans) == IF spans = <<>> THEN <<>> ELSE Head(spans).bytes \o SpanBytes(Tail(spans))

(***************************************************************************)
(* C26.  parse_spans returns for every data, and every byte of the data    *)
(* is in exactly one span: the bytes of the spans, in order, are the data. *)
(* An Invalid span is one byte that is not part of a valid character, a    *)
(* Control span one control byte, a CRLF span CR and LF, and a Text span    *)
(* holds no control byte.                                                  *)
(***************************************************************************)
C26_EveryByteInOneSpan ==
    lnPc = "parsed"
        => /\ SpanBytes(lnSpans) = lnData
           /\ \A i \in 1..Len(lnSpans) :
                  LET span == lnSpans[i]
                  IN /\ span.kind = "Invalid" => Len(span.bytes) = 1 /\ span.bytes[1] >= 128
                     /\ span.kind = "Control"
                            => Len(span.bytes) = 1 /\ IsControl(span.bytes[1])
                     /\ span.kind = "CRLF" => span.bytes = <<13, 10>>
                     /\ span.kind = "Text"
                            => \A j \in 1..Len(span.bytes) : ~IsControl(span.bytes[j])

\* The loader of a file on disk makes the step of its reload branch.
ReloadStep == fKind = "file" /\ ld.pc = "decide" /\ ld.reload /\ ld'.pc = "unfinish"

\* The event is in the queue.
Queued(queue, event) == \E i \in 1..Len(queue) : queue[i].event = event

(***************************************************************************)
(* C27.  The length of a file on disk never decreases except by a reload,  *)
(* and a reload sets it to 0 in the step that clears newlines: no state    *)
(* has the newlines cleared by a reload and the length of before it.       *)
(***************************************************************************)
C27_LengthResetWithNewlines ==
    [][fKind = "file"
         => /\ mLength' < mLength => (mLength' = 0 /\ mNewlines' = <<>>)
            /\ ReloadStep => (mNewlines' = <<>> /\ mLength' = 0)]_vars

(***************************************************************************)
(* C28.  Every reload of a file on disk, after a Reload event or a tail    *)
(* that does not match, with or without the appending flag: the floor      *)
(* becomes the larger of the floor and the line count of before, newlines  *)
(* is cleared, Reloading(index) is sent, and the file is loaded again      *)
(* from offset 0.                                                          *)
(***************************************************************************)
C28_ReloadRestartsTheLoad ==
    [][ReloadStep
         => /\ mFloor' = <<Max(UnwrapOr0(mFloor), LineCount(mNewlines, ld.offset))>>
            /\ mNewlines' = <<>>
            /\ Queued(evQueue', Reloading(FileIndex))
            /\ ld'.offset = 0
            /\ ld'.fileOpen => ld'.fpos = 0]_vars

\* The loader of a file on disk continues after an Append event.
AppendStep ==
    /\ fKind = "file" /\ ld.pc = "decide" /\ ~ld.reload /\ ld.sendEvent
    /\ ld'.pc = "unfinish"

\* The loader compares the tail of the file it has opened.
CompareStep == fKind = "file" /\ ld.pc = "open" /\ ~ld.reload /\ ld'.pc = "decide" /\ ld'.fileOpen

\* The sequence begins with the other.
IsPrefix(short, long) == Len(short) <= Len(long) /\ SubSeq(long, 1, Len(short)) = short

(***************************************************************************)
(* C29.  After an Append event the loader compares the tail it kept with   *)
(* the file at the same offset: other bytes make it a reload; the same     *)
(* bytes make it continue from length, with length and newlines as they    *)
(* were, the file at offset length, and Appending(index) sent; and while   *)
(* no reload happens newlines only grows, by offsets at or beyond the      *)
(* length of before.                                                       *)
(***************************************************************************)
C29_AppendContinuesFromLength ==
    [][/\ CompareStep
            => (ld'.reload
                  <=> ReadAt(fData, ld.offset - Len(ld.endData), Len(ld.endData)) # ld.endData)
       /\ AppendStep
            => /\ mLength' = mLength /\ mNewlines' = mNewlines
               /\ ld'.offset = mLength /\ ld'.fpos = mLength
               /\ Queued(evQueue', Appending(FileIndex))
       /\ (fKind = "file" /\ mNewlines' # mNewlines /\ ~ReloadStep)
            => /\ IsPrefix(mNewlines, mNewlines')
               /\ \A i \in Len(mNewlines) + 1..Len(mNewlines') : mNewlines'[i] >= mLength]_vars

\* The loader has continued after an Append event on a file that has
\* grown: Appending is queued and the bytes beyond length are still to read.
C29_Witness ==
    /\ fKind = "file"
    /\ ld.pc = "unfinish" /\ ~ld.reload /\ ld.sendEvent
    /\ Queued(evQueue, Appending(FileIndex))
    /\ mNewlines # <<>>
    /\ ld.fpos = mLength
    /\ Len(fData) > mLength

\* The rows the add_range calls of the planning name.
AddedRows(calls) ==
    {row \in 0..MaxPlanHeight :
        \E i \in 1..Len(calls) :
            calls[i][1] = "add_range" /\ calls[i][2] <= row /\ row < calls[i][3]}

\* The planning has scrolled the region by k: one change, of the direction
\* opposite to the scroll, for size rows from row 0, and one rotation of
\* the refresh the same way.
ScrollsRegion(out, direction, size, k) ==
    /\ out.changes = <<[change |-> IF direction = "Down" THEN "ScrollRegionUp"
                                   ELSE "ScrollRegionDown",
                        first_row |-> 0, region_size |-> size, scroll_count |-> k]>>
    /\ \E i \in 1..Len(out.calls) :
           out.calls[i] = <<IF direction = "Down" THEN "rotate_range_up"
                            ELSE "rotate_range_down", 0, size, k, TRUE>>
    /\ \A i, j \in 1..Len(out.calls) :
           (out.calls[i][1] # "add_range" /\ out.calls[j][1] # "add_range") => i = j

\* The planning has pushed no change and has the whole file view refreshed.
RefreshesFileView(in, out) ==
    /\ out.changes = <<>>
    /\ \A i \in 1..Len(out.calls) : out.calls[i][1] = "add_range"
    /\ in.all \/ AddedRows(out.calls) = 0..in.file_view_height - 1

RowsOf(rows, content) == Cardinality({i \in 1..Len(rows) : rows[i] = content})

\* The whole stack is on the screen, at its bottom, in its order.
ShownInFull(in, out) ==
    /\ ~out.panicked
    /\ out.overlay_height = StackHeight(in)
    /\ RowsOf(out.rows, "ProgressLine") = in.progress
    /\ RowsOf(out.rows, "ErrorFileLinePortion") = Min(in.error_file, ErrorFileRows)
    /\ RowsOf(out.rows, "Ruler") = 1
    /\ RowsOf(out.rows, "Search") = AsNumber(in.search)
    /\ RowsOf(out.rows, "Prompt") = AsNumber(in.prompt)
    /\ RowsOf(out.rows, "Error") = AsNumber(in.error)
    /\ \A i \in 1..Len(out.rows) :
          out.rows[i] = "Empty" <=> i <= in.height - StackHeight(in)

\* Only the row of the prompt is on the screen, at its bottom.
Collapsed(in, out) ==
    /\ ~out.panicked
    /\ out.overlay_height = AsNumber(in.prompt)
    /\ \A i \in 1..Len(out.rows) :
          out.rows[i] = (IF in.prompt /\ i = in.height THEN "Prompt" ELSE "Empty")
    /\ Len(out.rows) = in.height

(***************************************************************************)
(* C31, as stated.  The overlay is collapsed to the row of the prompt if   *)
(* and only if the stack is higher than the screen; a stack that is as     *)
(* high as the screen or lower is shown in full.                           *)
(***************************************************************************)
C31_CollapsedIffHigher ==
    ovPc = "placed"
        => IF StackHeight(ovIn) > ovIn.height THEN Collapsed(ovIn, ovOut)
           ELSE ShownInFull(ovIn, ovOut)

(***************************************************************************)
(* C31, amended.  The overlay is shown in full if and only if the stack is *)
(* lower than the screen, so that a row is left to the file; a stack as    *)
(* high as the screen or higher is collapsed to the row of the prompt, and *)
(* on a screen without rows the render of an open prompt panics.           *)
(***************************************************************************)
C31_CollapsedIffNotLower ==
    ovPc = "placed"
        => IF StackHeight(ovIn) < ovIn.height THEN ShownInFull(ovIn, ovOut)
           ELSE IF ovIn.prompt /\ ovIn.height = 0 THEN ovOut.panicked
           ELSE Collapsed(ovIn, ovOut)

\* A stack with every part that fills the screen exactly has been
\* collapsed to the prompt.
C31_Witness ==
    /\ ovPc = "placed"
    /\ StackHeight(ovIn) = ovIn.height
    /\ ovIn.progress > 0 /\ ovIn.error_file > ErrorFileRows
    /\ ovIn.search /\ ovIn.prompt /\ ovIn.error
    /\ Collapsed(ovIn, ovOut)

(***************************************************************************)
(* C32.  Every render raises needed_lines of the file to at least          *)
(* bottom_line + the height of the screen + read_ahead_lines.  The height  *)
(* of the screen is at least the height of the file view and the read      *)
(* ahead is at least 0, so after every render needed_lines is at least     *)
(* bottom_line + file_view_height.                                         *)
(***************************************************************************)
C32_RenderRaisesNeededLines ==
    [][RenderStep => mNeeded' >= Max(mNeeded, BottomLine(scHeights, scTop', scView) + scView)]_vars

\* The envelope of the call number n of the sender s is in the queue, or
\* held by receive.
InQueue(s, n) ==
    \/ \E i \in 1..Len(evQueue) : evQueue[i].from = <<s, n>>
    \/ getPc = "receive" /\ getHeld.from = <<s, n>>

\* A call of get has returned the event of that envelope.
InLog(s, n) == \E i \in 1..Len(getLog) : getLog[i].from = s /\ getLog[i].call = n

(***************************************************************************)
(* C33.  No event is lost to a missed wakeup: every envelope placed in the *)
(* queue is eventually returned by a call of get, while the display loop   *)
(* keeps calling get, with no timeout of the wait, and also when the Wake  *)
(* of the envelope was consumed by an earlier call.                        *)
(***************************************************************************)
C33_EveryEnvelopeReturned ==
    \A s \in Senders : \A n \in 1..MaxSends : InQueue(s, n) ~> InLog(s, n)

\* An envelope waits in the queue after an earlier get has returned, its
\* sender has sent its Wake and no Wake is pending: an earlier call
\* consumed it.
C33_Witness ==
    /\ getPc = "start"
    /\ getLog # <<>>
    /\ evQueue # <<>>
    /\ evWakes = 0
    /\ sndPc[Head(evQueue).from[1]] = "idle"

\* The renders begun so far: the calls of get that returned Event::Render,
\* which the display loop answers with Screen::render.
Renders == Cardinality({i \in 1..Len(getLog) : getLog[i].event = "Render"})

\* A request for a render is outstanding: the flag of the Render event is
\* set, by the request that sent the envelope or found it set.
RenderRequested == evFlag["render"]

(***************************************************************************)
(* C34.  A request for a render is never lost by coalescing.  While the    *)
(* flag is set the envelope of the Render is still to be returned, and     *)
(* every request, sent or elided, is followed by a render that begins      *)
(* after it.                                                               *)
(***************************************************************************)
C34_RequestFollowedByRender ==
    /\ [](RenderRequested =>
            \/ \E i \in 1..Len(evQueue) : evQueue[i].event = "Render"
            \/ getPc = "receive"
            \/ \E s \in Senders : sndPc[s] = "enqueue")
    /\ \A k \in 0..Cardinality(Senders) * MaxSends :
          (RenderRequested /\ Renders = k) ~> (Renders > k)

\* Every request has been made, one of them was elided, and the renders
\* they asked for have begun.
C34_Witness ==
    /\ \A s \in Senders : sndLeft[s] = 0 /\ sndPc[s] = "idle"
    /\ \E s \in Senders : sndLast[s] = "elided"
    /\ Renders > 0
    /\ ~RenderRequested
    /\ evQueue = <<>>
    /\ getPc # "receive"

\* The lines of a file that may be collected: its complete lines, and its
\* incomplete last line once the file is loaded.
Collectable(file) == file.full + (IF file.loaded /\ file.partial THEN 1 ELSE 0)

C36_CompleteMeansListedLoaded ==
    (drPc = "done" /\ drOutcome.is = "RenderComplete")
        => \A f \in Listed(drFiles) : drFile[f].loaded

\* The terminal that a render with the descriptor set to All gives for the
\* state of the screen.
FullRender == Paint([ptScreen EXCEPT !.pending = RefreshAll], ptRendered, ptTerm).term

(***************************************************************************)
(* C37.  Differential rendering is equivalent to full rendering: after     *)
(* every render the rows of the terminal hold what a render with the       *)
(* descriptor set to All would draw for the same state.                    *)
(***************************************************************************)
C37_DifferentialEqualsFull == ptScreen.height > 0 => ptTerm = FullRender

\* The bytes the file has of a block.
BlockOnDisk(disk, block_index) == ReadAt(disk, block_index * block_size, block_size)

(***************************************************************************)
(* C38.  The block cache stays coherent when the file grows without a      *)
(* reload: when a block was cached partly filled and the file has been     *)
(* appended to since, a with_slice for a range of that block is given the  *)
(* bytes the file now has at those offsets.  (The calls during which       *)
(* nothing fails, on a range inside the file.)                             *)
(***************************************************************************)
C38_CallAfterGrowth ==
    LET start == bcOut'.start
        end == bcOut'.end
        block_index == start \div block_size
        i == CacheIndex(bcCache, block_index)
    IN (/\ bcLeft' < bcLeft
        /\ bcOut'.fault = "none"
        /\ block_index = (end - 1) \div block_size
        /\ end <= Len(bcDisk)
        /\ i > 0
        /\ bcCache[i].buffer # <<>>
        /\ Len(bcCache[i].buffer) < Len(BlockOnDisk(bcDisk, block_index))
        /\ IsPrefix(bcCache[i].buffer, BlockOnDisk(bcDisk, block_index)))
        => /\ bcOut'.kind = "Ok"
           /\ bcOut'.data = ReadAt(bcDisk, start, end - start)

C38_CoherentAfterGrowth == [][C38_CallAfterGrowth]_vars

(***************************************************************************)
(* C39.  Every apply_changes call that modifies the lines sends            *)
(* Reloading to every subscriber, also a call in which a later change      *)
(* fails after earlier ones were applied: when a call returns, with Ok or   *)
(* with an error, and leaves other lines than it found, it has sent the    *)
(* event to each entry of the notify list.                                 *)
(***************************************************************************)
C39_ChangedMeansNotified ==
    [][(ctlLock = "write" /\ ctlLock' = "free" /\ ctlLines' # ctlCommitted)
          => (ctlPc = "notify" /\ ctlSub > Len(CtlNotifyList))]_vars

\* The bytes with_slice can hand out: those written to the buffers of a
\* streamed file, the whole mapping or slice otherwise.
CommittedBytes == IF fKind = "streamed" THEN written ELSE Len(fData)

(***************************************************************************)
(* C40.  Under any interleaving of the loader with with_line on a          *)
(* streamed, mapped or static file, the range that with_line gives to      *)
(* with_slice has start <= end and ends within the bytes the loader has    *)
(* committed: with_line does not fail and passes no uncommitted byte.       *)
(***************************************************************************)
C40_RangeWithinCommitted ==
    fKind \in {"streamed", "mapped", "static"}
        => \A index \in 0 .. Len(mNewlines) :
              LET r == WithLine(index, mNewlines, mLength)
              IN r.some => (r.start <= r.end /\ r.end <= CommittedBytes)
====
